---- MODULE Spec2Model ----
(***************************************************************************)
(* Model of obsfind: the indexer service (full reindex, per-file index,    *)
(* cancellation, stats), the API service in front of it, the vector store  *)
(* as the indexer sees it, the file watcher (debounce, bounded queue,      *)
(* periodic scan), the daemon's event handler and shutdown, the HTTP       *)
(* handler of /index/all, and the embedders: the cache in front of the     *)
(* Ollama embedder with its retry loop, and the hybrid embedder.           *)
(*                                                                         *)
(* Paths are sequences of path components.  A file's content is the list   *)
(* of chunk texts the markdown parser produces for it; Absent stands for a *)
(* file that does not exist.                                               *)
(***************************************************************************)
EXTENDS Integers, Sequences, FiniteSets, TLC

\* ---------------------------------------------------------------- bounds
NumReqs == 2          \* concurrent POST /index/all requests
MaxChunks == 2        \* chunks per file
MaxFsOps == 2         \* file-system operations the environment performs
MaxTime == 4          \* clock ticks
MaxApiCalls == 2      \* POST /index/file requests
MaxTexts == 3         \* texts in one EmbedBatch call
MaxEmbedCalls == 2    \* calls of the cached embedder
NumProviders == 3     \* embedders of the hybrid embedder
MaxHybridCalls == 3   \* calls of the hybrid embedder
MaxClientCalls == 3   \* calls of methods of the qdrant client
MaxBatches == 5       \* batches of one UpsertPoints call
MaxDirOps == 3        \* operations on directories the environment performs
MaxStopCalls == 2     \* calls of the daemon's Stop
MaxTextLen == 8       \* characters of a document body
MaxVaultCalls == 3    \* files indexed under the configuration with several vaults
MaxStatsCalls == 4    \* calls of GetStats and recordError

\* ------------------------------------------------------- program constants
BatchSize == 100      \* DefaultBatchConfig().BatchSize
MaxConcurrent == 4    \* DefaultBatchConfig().MaxConcurrent
DefaultTimeout == 30000   \* Config.DefaultTimeout, in ms
ReadyTick == 100          \* the ticker of waitForServerReady, in ms
DefaultSearchLimit == 10  \* consts.DefaultSearchLimit
ForceExitTimeout == 10    \* the force-exit timer of setupSignalHandling, in s
MinScore == 6         \* SearchOptions.MinScore of the API, in tenths
MaxEventQueue == 1    \* filewatcher Config.MaxEventQueue (scaled down)
ScanInterval == 2     \* filewatcher Config.ScanInterval, in clock ticks
batchSize == 2        \* OllamaEmbedder.batchSize (scaled down)
maxAttempts == 3      \* OllamaEmbedder.maxAttempts (scaled down)
dimensions == 768     \* OllamaEmbedder.dimensions

\* ------------------------------------------------------------ environment
VaultPaths == << <<"V">> >>
FileSeq == << <<"V", "a.md">>, <<"V", "b.md">> >>
Files == {FileSeq[i] : i \in 1..Len(FileSeq)}
Texts == {"x", "y"}
Absent == <<"absent">>
\* the directories of the vault, each before the directories it contains
DirSeq == << <<"V", "d", "e">>, <<"V", "d">>, <<"V", ".obsidian">>, <<"V">> >>
Dirs == {DirSeq[i] : i \in 1..Len(DirSeq)}
NoDirEvent == [Type |-> "none", Path |-> <<>>, IsDir |-> FALSE, Extension |-> ""]
\* a nil map
Nil == [nil |-> TRUE, keys |-> {}]
NoEvent == "none"
NoServer == [ptr |-> "nil", cmd |-> "nil", process |-> "nil"]

RECURSIVE SeqsUpTo(_)
SeqsUpTo(n) ==
  IF n = 0 THEN {<<>>}
  ELSE LET S == SeqsUpTo(n - 1)
       IN S \cup {Append(s, t) : s \in {q \in S : Len(q) = n - 1}, t \in Texts}

Contents == SeqsUpTo(MaxChunks)
Reqs == 1..NumReqs

VARIABLES
  \* indexer.Service
  isIndexing,     \* Service.isIndexing
  cancelled,      \* indexingCtx is done
  stats,          \* Service.stats: the three counters and Status
  daemon,         \* daemon.Service: running, stopping (in Stop) or stopped
  \* api.Service.ReindexAll callers and the goroutines they spawn
  rpc, rres, rforce,
  httpResp,       \* what handleIndexAll answered to each request
  bg, bgpos,
  \* api.Service.IndexFile caller
  ifpc, ifFile, ifChunks, ifres, apiCalls,
  \* vector store
  collExists, points,
  \* file system
  files,
  \* filewatcher.Watcher
  debounceMap,    \* path -> id of the timer stored for it, 0 when none
  timers,         \* the timers that are running or whose callback is due
  events,         \* the events channel
  recentEvents,   \* path -> time of the last queueEvent, -1 when none
  now, nextScan,  \* clock and the next tick of the scan ticker
  fsOps,          \* file-system operations so far (also the timer ids)
  \* daemon.Service status counters
  documentCount, indexedDocs,
  \* history: the last indexing pass that wrote to the store
  lastPass,
  \* history: pairs of reindex requests issued concurrently
  overlap,
  arrivedBusy,    \* history: the requests that arrived while an accepted
                  \* reindex had not ended
  \* history: per path, the current burst of file-system events
  burst,
  \* history: events dropped at a full queue, and what the last scan did
  dropped, scanLog,
  \* history: paths whose latest event has been handled by the daemon
  processedLast,
  \* history: the failures counted in the current full run, and what
  \* IndexVault returned when it ended
  runLog,
  \* model.CachedEmbedder and its caller
  cache,          \* SimpleEmbeddingCache.cache: key -> vector, NoVec when none
  cpc, cKind, cTexts, cResult, embedCalls,
  ctxDone,        \* the caller's context is cancelled
  \* model.OllamaEmbedder: the call the cached embedder is waiting for
  opc, oTexts, oStart, attempt, allEmbeddings, embeddings, embErr, oRet,
  \* history: the texts sent to the remote model during the current call, the
  \* remote calls made and the backoff waits started for the current sub-batch
  sent, calls, waits,
  \* model.HybridEmbedder: current, dimensions and modelName
  hybrid,
  \* its callers: position, the current read at the start, the loop index,
  \* the result and the provider that gave it
  hpc, hcur, hidx, hres, hby, hcalls,
  \* history: the providers a call has tried, in order, and whether no other
  \* call has switched the provider since the call began
  tried, clean,
  \* indexFile on the wired embedder: the embeddings it received
  ifVecs,
  \* the search API: the last request and what was answered to it
  sReq, sResp,
  \* the daemon process under a termination signal
  sigs, sigChan,     \* a signal is buffered in the channel of main.go, of RunDaemon
  shutdownCh, completeCh,   \* the channel is closed
  handlerPc,         \* the goroutine of setupSignalHandling
  runPc,             \* the shutdown goroutine of RunDaemon
  elapsed,           \* seconds since the force-exit timer was started
  exit,              \* how the process ended
  \* qdrant.Client under concurrent callers
  conn,              \* c.conn, c.collections and c.points are set
  readerCount,       \* read locks of c.mu that are held
  writer,            \* the goroutine that holds the write lock of c.mu
  mpc, meth, mres,   \* per goroutine: position, method, result
  rlocks,            \* history: read locks a goroutine took and has not released
  crashed,           \* a fatal error or a panic has ended the process
  clientCalls,
  \* qdrant.Client.UpsertPoints and batchProcess
  upPc, upN, upRes,  \* the caller: position, len(points), what was returned
  upCtxDone,         \* the context of the call is done
  batches,           \* the batches, each the first and last index of its points
  spawned,           \* the goroutines started so far
  bst,               \* per batch: where its goroutine is
  semaphore,         \* the slots of the semaphore channel that are taken
  errorsCh,          \* the errors channel
  collected, errs,   \* results received, and the errors among them
  upSent,            \* history: per batch, the requests that carried it
  outcome,           \* history: what the store answered for each batch
  \* qdrant.NewClient and Client.Connect
  cfgEmbedded,       \* Config.Embedded
  embedded,          \* c.embedded: NoServer, or the EmbeddedServer's cmd
  cnPc, cnRes,       \* the caller: position, and how Connect ended
  cnElapsed,         \* ms since the readiness wait began
  \* filewatcher.Watcher on directories, and its Close
  dirTree,           \* the directories that exist
  directories,       \* Watcher.directories
  fsn,               \* the Events channel of the fsnotify watcher
  hev,               \* the debounceEvent call handleFsEvent is about to make
  dirDebounce,       \* Watcher.debounceMap: its keys, or a nil map
  dirTimers,         \* the debounce timers of directory events
  wdone, sdone,      \* the done channel of the watcher, of the daemon is closed
  wpanic,            \* the panic that ended the process
  dirOps, stopCalls,
  \* markdown.Parser: the last chunking call
  chStrategy,        \* Indexing.ChunkStrategy, "none" before the first call
  chSections,        \* the contents of doc.Sections; doc.Content for the window
  chWindow,          \* MaxChunkSize and WindowOverlap
  chOut,             \* the contents of the chunks returned
  \* model.CachedEmbedder around the hybrid embedder (SetupFallbackEmbedder)
  hcache,            \* its cache: entries of key and vector
  wpc, wkind,        \* per caller: position, Embed or EmbedBatch
  wkey,              \* per caller: the cache key it has built
  \* indexing under a configuration with several vaults
  vaultCalls,
  \* Service.mutex and the fields of Service.stats written outside a run
  smu,            \* Service.mutex: the goroutine holding it for writing, the readers
  spc,            \* position of each goroutine in GetStats or recordError
  sinfo,          \* the collection info a goroutine received
  collectionInfo, \* Service.stats.CollectionInfo
  lastError,      \* Service.stats.LastError
  statsCalls

vars == <<isIndexing, cancelled, stats, daemon, rpc, rres, rforce, httpResp,
          bg, bgpos,
          ifpc, ifFile, ifChunks, ifres, apiCalls, collExists, points, files,
          debounceMap, timers, events, recentEvents, now, nextScan, fsOps,
          documentCount, indexedDocs,
          lastPass, overlap, arrivedBusy, burst, dropped, scanLog, processedLast, runLog,
          cache, cpc, cKind, cTexts, cResult, embedCalls, ctxDone,
          opc, oTexts, oStart, attempt, allEmbeddings, embeddings, embErr, oRet,
          sent, calls, waits,
          hybrid, hpc, hcur, hidx, hres, hby, hcalls, tried, clean,
          ifVecs, sReq, sResp,
          sigs, sigChan, shutdownCh, completeCh, handlerPc, runPc, elapsed, exit,
          conn, readerCount, writer, mpc, meth, mres, rlocks, crashed,
          clientCalls,
          upPc, upN, upRes, upCtxDone, batches, spawned, bst, semaphore,
          errorsCh, collected, errs, upSent, outcome,
          cfgEmbedded, embedded, cnPc, cnRes, cnElapsed,
          dirTree, directories, fsn, hev, dirDebounce, dirTimers, wdone, sdone, wpanic, dirOps, stopCalls,
          chStrategy, chSections, chWindow, chOut,
          hcache, wpc, wkind, wkey,
          vaultCalls,
          smu, spc, sinfo, collectionInfo, lastError, statsCalls>>

idxVars == <<isIndexing, cancelled, stats, runLog, daemon>>
reqVars == <<rpc, rres, rforce, httpResp, bg, bgpos, overlap, arrivedBusy>>
ifVars == <<ifpc, ifFile, ifChunks, ifres, apiCalls>>
storeVars == <<collExists, points>>
watchVars == <<debounceMap, timers, events, recentEvents, now, nextScan, fsOps,
               burst, dropped, scanLog>>
daemonVars == <<documentCount, indexedDocs, processedLast>>
cachedVars == <<cache, cpc, cKind, cTexts, cResult, embedCalls>>
ollamaVars == <<opc, oTexts, oStart, attempt, allEmbeddings, embeddings, embErr,
                oRet, sent, calls, waits>>
hybridVars == <<hybrid, hpc, hcur, hidx, hres, hby, hcalls, tried, clean>>
wireVars == <<ifVecs>>
searchVars == <<sReq, sResp>>
shutdownVars == <<sigs, sigChan, shutdownCh, completeCh, handlerPc, runPc,
                  elapsed, exit>>
clientVars == <<conn, readerCount, writer, mpc, meth, mres, rlocks, crashed,
                clientCalls>>
batchVars == <<upPc, upN, upRes, upCtxDone, batches, spawned, bst, semaphore,
               errorsCh, collected, errs, upSent, outcome>>
connVars == <<cfgEmbedded, embedded, cnPc, cnRes, cnElapsed>>
dirVars == <<dirTree, directories, fsn, hev, dirDebounce, dirTimers, wdone, sdone, wpanic, dirOps, stopCalls>>
chunkVars == <<chStrategy, chSections, chWindow, chOut>>
wrapVars == <<hcache, wpc, wkind, wkey>>
vaultVars == <<vaultCalls>>
statVars == <<smu, spc, sinfo, collectionInfo, lastError, statsCalls>>
laterVars == <<batchVars, connVars, dirVars, chunkVars, wrapVars, vaultVars, statVars>>
otherVars == <<wireVars, searchVars, shutdownVars, clientVars, laterVars>>
coreVars == <<cachedVars, ctxDone, ollamaVars, hybridVars, idxVars, reqVars,
              ifVars, storeVars, files, watchVars, daemonVars, lastPass>>
modelVars == <<cachedVars, ctxDone, ollamaVars, hybridVars, otherVars>>
notBatch == <<coreVars, wireVars, searchVars, shutdownVars, connVars, dirVars, chunkVars, wrapVars, vaultVars, statVars>>
notConn == <<coreVars, wireVars, searchVars, shutdownVars, batchVars, dirVars, chunkVars, wrapVars, vaultVars, statVars>>
notDirs == <<coreVars, wireVars, searchVars, shutdownVars, batchVars, connVars, chunkVars, wrapVars, vaultVars, statVars>>
notChunk == <<coreVars, wireVars, searchVars, shutdownVars, batchVars, connVars, dirVars, wrapVars, vaultVars, statVars>>
notWrap == <<coreVars, wireVars, searchVars, shutdownVars, batchVars, connVars, dirVars, chunkVars, vaultVars, statVars>>
notVault == <<coreVars, wireVars, searchVars, shutdownVars, batchVars, connVars, dirVars, chunkVars, wrapVars, statVars>>
notStats == <<coreVars, wireVars, searchVars, shutdownVars, batchVars, connVars, dirVars, chunkVars, wrapVars, vaultVars>>

\* ---------------------------------------------------------- path helpers
\* strings.HasPrefix(path, vaultPath), on components
HasPrefix(path, prefix) ==
  /\ Len(prefix) <= Len(path)
  /\ SubSeq(path, 1, Len(prefix)) = prefix

\* filepath.Base
Base(path) == IF Len(path) = 0 THEN "." ELSE path[Len(path)]

\* filepath.Rel(basePath, path) for a path below basePath; the full path is
\* kept when no relative path can be formed
Rel(basePath, path) ==
  IF HasPrefix(path, basePath)
  THEN SubSeq(path, Len(basePath) + 1, Len(path))
  ELSE path

\* Service.findBaseVaultPath
findBaseVaultPath(path) ==
  IF Len(VaultPaths) = 1 THEN VaultPaths[1]
  ELSE LET matches == {i \in 1..Len(VaultPaths) : HasPrefix(path, VaultPaths[i])}
       IN IF matches # {}
          THEN VaultPaths[CHOOSE i \in matches :
                 \A j \in matches :
                   \/ Len(VaultPaths[j]) < Len(VaultPaths[i])
                   \/ (Len(VaultPaths[j]) = Len(VaultPaths[i]) /\ i <= j)]
          ELSE IF Len(VaultPaths) > 0 THEN VaultPaths[1] ELSE <<>>

\* --------------------------------------------------------- point building
\* a faulty id: one that depends on what the store already holds
PointIdBySize(vaultName, relPath, i) ==
  <<vaultName, relPath, i, Cardinality(points)>>

\* model2.HashString(fmt.Sprintf("%s:%s#%d", vaultName, relPath, i)): the
\* UUIDv5 of the formatted key, taken as injective on the key
PointId(vaultName, relPath, i) == <<vaultName, relPath, i>>

\* the points indexFile builds for a file with the given chunk texts
BuildPoints(path, basePath, chunks) ==
  LET relPath == Rel(basePath, path)
      vaultName == Base(basePath)
  IN {[id |-> PointId(vaultName, relPath, i - 1),
       path |-> relPath,
       full_path |-> path,
       vault_name |-> vaultName,
       text |-> chunks[i],
       chunk_index |-> i - 1,
       total_chunks |-> Len(chunks)] : i \in 1..Len(chunks)}

\* points.Upsert of the store: a point replaces the stored point of its id
Upsert(stored, new) ==
  {p \in stored : \A q \in new : q.id # p.id} \cup new

\* Client.GetPointsByPath: the stored points whose payload path matches
GetPointsByPath(stored, path) == {p \in stored : p.path = path}

\* the history records before anything happened
NoPass == [file |-> <<>>, chunks |-> <<>>, written |-> {}, prevWritten |-> {},
           before |-> 0, after |-> 0, repeat |-> FALSE]
NoResponse == [code |-> 0, status |-> "none"]
NoRun == [failed |-> 0, ret |-> "none"]
NoBurst == [started |-> FALSE, clean |-> TRUE, n |-> 0, last |-> NoEvent,
            emitted |-> 0, emittedType |-> NoEvent]

\* the history record of a pass over file path with the given chunks that
\* wrote the points written and took the store from before to after
PassRecord(path, chunks, written, before, after) ==
  [file |-> path, chunks |-> chunks, written |-> written,
   prevWritten |-> lastPass.written,
   before |-> Cardinality(before), after |-> Cardinality(after),
   repeat |-> (lastPass.file = path /\ lastPass.chunks = chunks)]

\* ------------------------------------------------------- embedding helpers
\* the vector the remote model computes for a text
Embedding(text) == <<"vec", text>>
NoVec == <<>>
NoResult == [err |-> "none", vecs |-> <<>>]

\* the cache key CachedEmbedder builds for a text
CacheKey(text) == [Text |-> text, ModelName |-> "nomic-embed-text",
                   Dimensions |-> dimensions]
CacheKeys == {CacheKey(t) : t \in Texts}
NoKey == [Text |-> "", ModelName |-> <<>>, Dimensions |-> 0]

\* the embedders of the hybrid embedder, in order of preference, and the
\* goroutines that call it
Providers == 1..NumProviders
Callers == {"c1", "c2"}
Goroutines == {"g1", "g2", "g3"}

\* Name() and Dimensions() of the i-th embedder
ProviderName(i) == <<"embedder", i>>
ProviderDimensions(i) == 256 * i

\* fmt.Sprintf("hybrid(%s)", name)
HybridName(name) == <<"hybrid", name>>

\* a faulty switch: the reported name and dimensions stay as they were
SwitchToKeepName(h, i) == [h EXCEPT !.current = i]

\* the update of the hybrid embedder when the i-th embedder succeeded as a
\* fallback
SwitchTo(h, i) ==
  [current |-> i,
   dimensions |-> ProviderDimensions(i),
   modelName |-> HybridName(ProviderName(i))]

NewHybridEmbedder ==
  [current |-> 1,
   dimensions |-> ProviderDimensions(1),
   modelName |-> HybridName(ProviderName(1))]

\* ----------------------------------------------------------- search helpers
\* strings are sequences of characters
FilterPrefixPath == <<"p", "a", "t", "h", ":">>
FilterPrefixTags == <<"t", "a", "g", "s", ":">>

\* strings.Contains(s, ch) for a substring of one character
strContains(s, ch) == \E k \in 1..Len(s) : s[k] = ch

\* strings.Split(s, sep) for a separator of one character
RECURSIVE strSplit(_, _)
strSplit(s, sep) ==
  IF ~strContains(s, sep) THEN <<s>>
  ELSE LET i == CHOOSE k \in 1..Len(s) :
                  s[k] = sep /\ \A j \in 1..(k - 1) : s[j] # sep
       IN <<SubSeq(s, 1, i - 1)>> \o strSplit(SubSeq(s, i + 1, Len(s)), sep)

\* strings.Join(ss, sep)
RECURSIVE strJoin(_, _)
strJoin(ss, sep) ==
  IF Len(ss) = 0 THEN <<>>
  ELSE IF Len(ss) = 1 THEN ss[1]
  ELSE ss[1] \o sep \o strJoin(Tail(ss), sep)

\* unicode.IsSpace on the characters of the model
IsSpace(ch) == ch \in {" ", "\n"}

\* strings.TrimSpace(s)
RECURSIVE TrimSpace(_)
TrimSpace(s) ==
  IF Len(s) > 0 /\ IsSpace(s[1]) THEN TrimSpace(Tail(s))
  ELSE IF Len(s) > 0 /\ IsSpace(s[Len(s)]) THEN TrimSpace(SubSeq(s, 1, Len(s) - 1))
  ELSE s

\* the collection the searches run on: the points of the vault /V with the
\* notes a (two chunks), n/a and n/b
Indexed ==
  << [path |-> <<"a">>, full_path |-> <<"/", "V", "/", "a">>,
      tags |-> {<<"p">>}, chunk_index |-> 0],
     [path |-> <<"a">>, full_path |-> <<"/", "V", "/", "a">>,
      tags |-> {<<"p">>}, chunk_index |-> 1],
     [path |-> <<"n", "/", "a">>, full_path |-> <<"/", "V", "/", "n", "/", "a">>,
      tags |-> {<<"q">>}, chunk_index |-> 0],
     [path |-> <<"n", "/", "b">>, full_path |-> <<"/", "V", "/", "n", "/", "b">>,
      tags |-> {<<"p">>, <<"q">>}, chunk_index |-> 0] >>

\* the scores the store can give a point, in tenths
Scores == {5, 8}
Scorings == [1..Len(Indexed) -> Scores]

\* the values the parameters of a request are drawn from
PathPrefixes == {<<>>, <<"n", "/">>, <<"a">>}
TagLists == {<<>>, << <<"p">> >>, << <<"q">> >>, << <<"p">>, <<"q">> >>}
GenericFilters == {<<>>, <<"n", "/">>}
FilePaths == {<<>>, <<"a">>, <<"n", "/", "a">>, <<"/", "V", "/", "a">>,
              <<"/", "V", "/", "n", "/", "b">>, <<"z">>}
Limits == {0, 1}

NoRequest == [kind |-> "none", method |-> "", path_prefix |-> <<>>,
              tags |-> <<>>, filter |-> <<>>, file_path |-> <<>>, limit |-> 0]

\* the indices of Indexed by descending score, ties in stored order
RECURSIVE byScore(_, _)
byScore(sc, rest) ==
  IF rest = {} THEN <<>>
  ELSE LET i == CHOOSE k \in rest :
                  \A j \in rest : sc[j] < sc[k] \/ (sc[j] = sc[k] /\ k <= j)
       IN <<i>> \o byScore(sc, rest \ {i})

\* Client.Search without a filter: the limit best points with their scores
storeSearch(sc, limit) ==
  LET order == byScore(sc, 1..Len(Indexed))
      n == IF limit < Len(order) THEN limit ELSE Len(order)
  IN [k \in 1..n |-> [path |-> Indexed[order[k]].path,
                       tags |-> Indexed[order[k]].tags,
                       chunk_index |-> Indexed[order[k]].chunk_index,
                       score |-> sc[order[k]]]]

\* sort.Slice by descending score; results of equal score keep their order
RECURSIVE sortByScore(_)
sortByScore(results) ==
  IF Len(results) = 0 THEN <<>>
  ELSE LET i == CHOOSE k \in 1..Len(results) :
                  /\ \A j \in 1..Len(results) : results[j].score <= results[k].score
                  /\ \A j \in 1..(k - 1) : results[j].score < results[k].score
       IN <<results[i]>> \o
          sortByScore(SubSeq(results, 1, i - 1) \o
                      SubSeq(results, i + 1, Len(results)))

\* ---------------------------------------------------------------- Init
Init ==
  /\ isIndexing = FALSE
  /\ cancelled = FALSE
  /\ stats = [TotalDocuments |-> 0, IndexedDocuments |-> 0,
              FailedDocuments |-> 0, Status |-> "idle"]
  /\ daemon = "running"
  /\ httpResp = [r \in Reqs |-> NoResponse]
  /\ rpc = [r \in Reqs |-> "idle"]
  /\ rres = [r \in Reqs |-> "none"]
  /\ rforce = [r \in Reqs |-> FALSE]
  /\ bg = [r \in Reqs |-> "none"]
  /\ bgpos = [r \in Reqs |-> 1]
  /\ ifpc = "idle"
  /\ ifFile = FileSeq[1]
  /\ ifChunks = <<>>
  /\ ifres = "none"
  /\ apiCalls = 0
  /\ collExists = TRUE
  /\ points = {}
  /\ files = [f \in Files |-> <<"x">>]
  /\ debounceMap = [f \in Files |-> 0]
  /\ timers = {}
  /\ events = <<>>
  /\ recentEvents = [f \in Files \cup Dirs |-> -1]
  /\ now = 0
  /\ nextScan = ScanInterval
  /\ fsOps = 0
  /\ documentCount = 0
  /\ indexedDocs = 0
  /\ lastPass = NoPass
  /\ overlap = {}
  /\ arrivedBusy = {}
  /\ burst = [f \in Files |-> NoBurst]
  /\ dropped = {}
  /\ scanLog = [dropped |-> {}, emitted |-> {}]
  /\ processedLast = [f \in Files |-> FALSE]
  /\ runLog = NoRun
  /\ cache = [k \in CacheKeys |-> NoVec]
  /\ cpc = "idle"
  /\ cKind = "EmbedBatch"
  /\ cTexts = <<>>
  /\ cResult = NoResult
  /\ embedCalls = 0
  /\ ctxDone = FALSE
  /\ opc = "idle"
  /\ oTexts = <<>>
  /\ oStart = 1
  /\ attempt = 0
  /\ allEmbeddings = <<>>
  /\ embeddings = <<>>
  /\ embErr = FALSE
  /\ oRet = NoResult
  /\ sent = {}
  /\ calls = 0
  /\ waits = <<>>
  /\ hybrid = NewHybridEmbedder
  /\ hpc = [c \in Callers |-> "idle"]
  /\ hcur = [c \in Callers |-> 1]
  /\ hidx = [c \in Callers |-> 1]
  /\ hres = [c \in Callers |-> "none"]
  /\ hby = [c \in Callers |-> 0]
  /\ hcalls = 0
  /\ tried = [c \in Callers |-> <<>>]
  /\ clean = [c \in Callers |-> TRUE]
  /\ ifVecs = <<>>
  /\ sReq = NoRequest
  /\ sResp = [code |-> 0, results |-> <<>>]
  /\ sigs = FALSE
  /\ sigChan = FALSE
  /\ shutdownCh = FALSE
  /\ completeCh = FALSE
  /\ handlerPc = "wait"
  /\ runPc = "start"
  /\ elapsed = 0
  /\ exit = "none"
  /\ conn = TRUE
  /\ readerCount = 0
  /\ writer = "none"
  /\ mpc = [g \in Goroutines |-> "idle"]
  /\ meth = [g \in Goroutines |-> "CollectionExists"]
  /\ mres = [g \in Goroutines |-> "none"]
  /\ rlocks = [g \in Goroutines |-> 0]
  /\ crashed = FALSE
  /\ clientCalls = 0
  /\ upPc = "idle"
  /\ upN = 0
  /\ upRes = "none"
  /\ upCtxDone = FALSE
  /\ batches = <<>>
  /\ spawned = 0
  /\ bst = <<>>
  /\ semaphore = 0
  /\ errorsCh = <<>>
  /\ collected = 0
  /\ errs = 0
  /\ upSent = <<>>
  /\ outcome = <<>>
  /\ cfgEmbedded = FALSE
  /\ embedded = NoServer
  /\ cnPc = "none"
  /\ cnRes = "none"
  /\ cnElapsed = 0
  /\ dirTree = {<<"V">>, <<"V", "d">>}
  /\ directories = {}
  /\ fsn = <<>>
  /\ hev = NoDirEvent
  /\ dirDebounce = [nil |-> FALSE, keys |-> {}]
  /\ dirTimers = {}
  /\ wdone = FALSE
  /\ sdone = FALSE
  /\ wpanic = "none"
  /\ dirOps = 0
  /\ stopCalls = 0
  /\ chStrategy = "none"
  /\ chSections = <<>>
  /\ chWindow = <<0, 0>>
  /\ chOut = <<>>
  /\ hcache = {}
  /\ wpc = [c \in Callers |-> "idle"]
  /\ wkind = [c \in Callers |-> "Embed"]
  /\ wkey = [c \in Callers |-> NoKey]
  /\ vaultCalls = 0
  /\ smu = [writer |-> "none", readers |-> {}]
  /\ spc = [g \in Goroutines |-> "idle"]
  /\ sinfo = [g \in Goroutines |-> 0]
  /\ collectionInfo = 0
  /\ lastError = ""
  /\ statsCalls = 0

\* ------------------------------------------------- api.Service.ReindexAll
NoRunInProgress ==
  /\ ~isIndexing
  /\ \A r \in Reqs : bg[r] \in {"none", "done"}

\* the server accepts requests until Stop shuts it down
Serving == daemon = "running"

\* the process and its goroutines run until Stop has returned
Alive == daemon # "stopped"

\* handleIndexAll for a request whose method MethodChecker refuses
handleIndexAllMethod(r, method) ==
  /\ Serving
  /\ rpc[r] = "idle"
  /\ method # "POST"
  /\ rpc' = [rpc EXCEPT ![r] = "returned"]
  /\ rres' = [rres EXCEPT ![r] = "refused"]
  /\ httpResp' = [httpResp EXCEPT ![r] = [code |-> 405, status |-> "error"]]
  /\ UNCHANGED <<modelVars, rforce, bg, bgpos, overlap, arrivedBusy, idxVars, ifVars, storeVars, files,
                 watchVars, daemonVars, lastPass>>

\* handleIndexAll for a POST: the handler enters ReindexAll
ReindexAllCall(r, force) ==
  /\ Serving
  /\ rpc[r] = "idle"
  /\ rpc' = [rpc EXCEPT ![r] = "called"]
  /\ rforce' = [rforce EXCEPT ![r] = force]
  /\ overlap' = IF NoRunInProgress
                THEN overlap \cup {{r, o} : o \in {q \in Reqs : q # r /\ rpc[q] = "called"}}
                ELSE overlap
  /\ arrivedBusy' = IF \E o \in Reqs \ {r} : rres[o] = "started" /\ bg[o] # "done"
                    THEN arrivedBusy \cup {r}
                    ELSE arrivedBusy
  /\ UNCHANGED <<modelVars, rres, httpResp, bg, bgpos, idxVars, ifVars, storeVars, files,
                 watchVars, daemonVars, lastPass>>

\* what handleIndexAll writes for the result of ReindexAll
IndexAllResponse(err) ==
  IF err THEN [code |-> 500, status |-> "error"]
  ELSE [code |-> 200, status |-> "reindexing_started"]

\* indexer.IsIndexing(), then `go backgroundReindexAll(force)` and return;
\* the handler answers with the result
ReindexAll(r) ==
  /\ Alive
  /\ rpc[r] = "called"
  /\ rpc' = [rpc EXCEPT ![r] = "returned"]
  /\ IF isIndexing
     THEN /\ rres' = [rres EXCEPT ![r] = "busy"]
          /\ UNCHANGED bg
     ELSE /\ rres' = [rres EXCEPT ![r] = "started"]
          /\ bg' = [bg EXCEPT ![r] = IF rforce[r] THEN "drop" ELSE "IndexVault"]
  /\ httpResp' = [httpResp EXCEPT ![r] = IndexAllResponse(isIndexing)]
  /\ UNCHANGED <<modelVars, rforce, bgpos, overlap, arrivedBusy, idxVars, ifVars, storeVars, files,
                 watchVars, daemonVars, lastPass>>

\* resetCollection, first half: DeleteCollection
resetCollectionDrop(r) ==
  /\ Alive
  /\ bg[r] = "drop"
  /\ collExists' = FALSE
  /\ points' = {}
  /\ bg' = [bg EXCEPT ![r] = "create"]
  /\ lastPass' = NoPass
  /\ UNCHANGED <<modelVars, rpc, rres, rforce, httpResp, bgpos, overlap, arrivedBusy, idxVars, files,
                 ifVars, watchVars, daemonVars>>

\* resetCollection, second half: CreateCollection, which may fail
resetCollectionCreate(r) ==
  /\ Alive
  /\ bg[r] = "create"
  /\ \E ok \in BOOLEAN :
       IF ok
       THEN /\ collExists' = TRUE
            /\ bg' = [bg EXCEPT ![r] = "IndexVault"]
       ELSE /\ collExists' = collExists
            /\ bg' = [bg EXCEPT ![r] = "done"]
  /\ UNCHANGED <<modelVars, points, rpc, rres, rforce, httpResp, bgpos, overlap, arrivedBusy, idxVars,
                 ifVars, files, watchVars, daemonVars, lastPass>>

\* ------------------------------------------------ indexer.Service.IndexVault
\* entry: the single-flight check under the mutex
IndexVaultEnter(r) ==
  /\ Alive
  /\ bg[r] = "IndexVault"
  /\ IF isIndexing
     THEN /\ bg' = [bg EXCEPT ![r] = "done"]
          /\ UNCHANGED <<idxVars, bgpos>>
     ELSE /\ isIndexing' = TRUE
          /\ cancelled' = FALSE
          /\ stats' = [stats EXCEPT !.Status = "indexing"]
          /\ runLog' = NoRun
          /\ UNCHANGED daemon
          /\ bg' = [bg EXCEPT ![r] = "walk"]
          /\ bgpos' = [bgpos EXCEPT ![r] = 1]
  /\ UNCHANGED <<modelVars, rpc, rres, rforce, httpResp, overlap, arrivedBusy, ifVars, storeVars,
                 files, watchVars, daemonVars, lastPass>>

\* the WalkDir callback up to TotalDocuments++
WalkEntry(r) ==
  /\ Alive
  /\ bg[r] = "walk"
  /\ IF cancelled \/ bgpos[r] > Len(FileSeq)
     THEN /\ bg' = [bg EXCEPT ![r] = "defer"]
          /\ UNCHANGED stats
     ELSE /\ stats' = [stats EXCEPT !.TotalDocuments = @ + 1]
          /\ bg' = [bg EXCEPT ![r] = "indexFile"]
  /\ UNCHANGED <<modelVars, isIndexing, cancelled, runLog, daemon, rpc, rres, rforce,
                 httpResp, bgpos, overlap, arrivedBusy, ifVars, storeVars, files, watchVars,
                 daemonVars, lastPass>>

\* a faulty accounting: a failure is not counted
CountOutcomeLost(st, ok) ==
  IF ok THEN [st EXCEPT !.IndexedDocuments = @ + 1] ELSE st

\* the walk's accounting of one file's outcome
CountOutcome(st, ok) ==
  IF ok THEN [st EXCEPT !.IndexedDocuments = @ + 1]
  ELSE [st EXCEPT !.FailedDocuments = @ + 1]

\* the WalkDir callback from indexFile on: read, chunk, embed, upsert, then
\* IndexedDocuments++ or FailedDocuments++
WalkIndexFile(r) ==
  /\ Alive
  /\ bg[r] = "indexFile"
  /\ LET path == FileSeq[bgpos[r]]
         chunks == files[path]
     IN \E embedOk \in BOOLEAN :
          LET readOk == chunks # Absent
              empty == chunks = <<>>
              stored == readOk /\ ~empty /\ embedOk /\ collExists
              ok == empty \/ stored
              new == BuildPoints(path, VaultPaths[1], chunks)
          IN /\ points' = IF stored THEN Upsert(points, new) ELSE points
             /\ lastPass' = IF stored
                            THEN PassRecord(path, chunks, new, points, Upsert(points, new))
                            ELSE lastPass
             /\ stats' = CountOutcome(stats, ok)
             /\ runLog' = [runLog EXCEPT !.failed = IF ok THEN @ ELSE @ + 1]
  /\ bg' = [bg EXCEPT ![r] = "walk"]
  /\ bgpos' = [bgpos EXCEPT ![r] = @ + 1]
  /\ UNCHANGED <<modelVars, isIndexing, cancelled, daemon, rpc, rres, rforce, httpResp,
                 overlap, arrivedBusy, collExists, files, ifVars, watchVars, daemonVars>>

\* the deferred function of IndexVault
IndexVaultDefer(r) ==
  /\ Alive
  /\ bg[r] = "defer"
  /\ isIndexing' = FALSE
  /\ stats' = [stats EXCEPT !.Status =
                 IF stats.FailedDocuments > 0 THEN "error" ELSE "idle"]
  /\ runLog' = [runLog EXCEPT !.ret = "nil"]
  /\ bg' = [bg EXCEPT ![r] = "done"]
  /\ UNCHANGED <<modelVars, cancelled, daemon, rpc, rres, rforce, httpResp, bgpos,
                 overlap, arrivedBusy, ifVars, storeVars, files, watchVars, daemonVars,
                 lastPass>>

\* Service.CancelIndexing (cancelIndexing is non-nil whenever isIndexing)
CancelIndexing ==
  /\ Alive
  /\ isIndexing
  /\ cancelled' = TRUE
  /\ stats' = [stats EXCEPT !.Status = "idle"]
  /\ UNCHANGED <<modelVars, isIndexing, runLog, daemon, reqVars, ifVars, storeVars, files,
                 watchVars, daemonVars, lastPass>>

\* ------------------------------------------------------ daemon.Service.Stop
\* Stop up to the shutdown of the API server: done is closed and the server
\* takes no further request
Stop ==
  /\ daemon = "running"
  /\ daemon' = "stopping"
  /\ UNCHANGED <<modelVars, isIndexing, cancelled, stats, runLog, reqVars, ifVars,
                 storeVars, files, watchVars, daemonVars, lastPass>>

\* the rest of Stop: watcher, embedder and store client are closed, Stop
\* returns and RunDaemon ends the process
StopClose ==
  /\ daemon = "stopping"
  /\ daemon' = "stopped"
  /\ UNCHANGED <<modelVars, isIndexing, cancelled, stats, runLog, reqVars, ifVars,
                 storeVars, files, watchVars, daemonVars, lastPass>>

\* ------------------------------------------------- api.Service.IndexFile
\* POST /index/file: the suffix check and os.Stat of indexer.IndexFile
IndexFileStat(f) ==
  /\ Serving
  /\ ifpc = "idle"
  /\ apiCalls < MaxApiCalls
  /\ apiCalls' = apiCalls + 1
  /\ ifFile' = f
  /\ ifChunks' = <<>>
  /\ IF files[f] = Absent
     THEN /\ ifpc' = "idle"
          /\ ifres' = "error"
     ELSE /\ ifpc' = "read"
          /\ ifres' = "none"
  /\ UNCHANGED <<modelVars, idxVars, reqVars, storeVars, files, watchVars, daemonVars, lastPass>>

\* indexFile: os.ReadFile, Parse and chunking; no chunks is a success
IndexFileRead ==
  /\ ifpc = "read"
  /\ IF files[ifFile] = Absent
     THEN /\ ifpc' = "idle"
          /\ ifres' = "error"
          /\ UNCHANGED ifChunks
     ELSE IF files[ifFile] = <<>>
     THEN /\ ifpc' = "idle"
          /\ ifres' = "ok"
          /\ UNCHANGED ifChunks
     ELSE /\ ifpc' = "embed"
          /\ ifChunks' = files[ifFile]
          /\ UNCHANGED ifres
  /\ UNCHANGED <<modelVars, ifFile, apiCalls, idxVars, reqVars, storeVars, files,
                 watchVars, daemonVars, lastPass>>

\* indexFile: embedder.EmbedBatch, which may fail
IndexFileEmbed ==
  /\ ifpc = "embed"
  /\ \E embedOk \in BOOLEAN :
       IF embedOk
       THEN /\ ifpc' = "upsert"
            /\ UNCHANGED ifres
       ELSE /\ ifpc' = "idle"
            /\ ifres' = "error"
  /\ UNCHANGED <<modelVars, ifFile, ifChunks, apiCalls, idxVars, reqVars, storeVars, files,
                 watchVars, daemonVars, lastPass>>

\* indexFile: the points are built and upserted; the store refuses them
\* while the collection does not exist
IndexFileUpsert ==
  /\ ifpc = "upsert"
  /\ LET new == BuildPoints(ifFile, findBaseVaultPath(ifFile), ifChunks)
     IN IF collExists
        THEN /\ points' = Upsert(points, new)
             /\ lastPass' = PassRecord(ifFile, ifChunks, new, points, Upsert(points, new))
             /\ ifres' = "ok"
        ELSE /\ UNCHANGED <<points, lastPass>>
             /\ ifres' = "error"
  /\ ifpc' = "idle"
  /\ UNCHANGED <<modelVars, ifFile, ifChunks, apiCalls, collExists, idxVars, reqVars, files,
                 watchVars, daemonVars>>

\* the file f is written, created or removed while nothing watches it
WriteFile(f, content) ==
  /\ fsOps < MaxFsOps
  /\ files[f] # content
  /\ files' = [files EXCEPT ![f] = content]
  /\ fsOps' = fsOps + 1
  /\ UNCHANGED <<modelVars, debounceMap, timers, events, recentEvents, now, nextScan,
                 burst, dropped, scanLog, daemonVars, idxVars, reqVars, ifVars,
                 storeVars, lastPass>>

\* ------------------------------------------------------ filewatcher.Watcher
MdNames == {"a.md", "b.md"}

\* strings.ToLower(filepath.Ext(path))
Extension(path) == IF Base(path) \in MdNames THEN ".md" ELSE ""

\* Watcher.shouldProcess for a file: not excluded, not a dot file, and
\* matching the include pattern *.md
shouldProcess(path) == Extension(path) = ".md"

\* the event type handleFsEvent derives from the fsnotify operation
EventTypeOf(op) ==
  CASE op = "Create" -> "Created"
    [] op = "Write" -> "Modified"
    [] op = "Remove" -> "Deleted"
    [] op = "Rename" -> "Renamed"

MkEvent(type, path) ==
  [Type |-> type, Path |-> path, IsDir |-> FALSE, Extension |-> Extension(path)]

\* a faulty send: the event is appended whatever the queue holds
SendAlways(q, ev) == Append(q, ev)

\* the select of queueEvent: send when the channel has room, else discard
Send(q, ev) == IF Len(q) < MaxEventQueue THEN Append(q, ev) ELSE q

\* a faulty Stop: the timer that is replaced keeps running
StopTimerNot(ts, id) == ts

\* timer.Stop(): a timer that has not fired is cancelled, one whose callback
\* is already due is not
StopTimer(ts, id) == {t \in ts : ~(t.id = id /\ t.state = "pending")}

LiveTimers(f) == {t \in timers : t.path = f}
Queued(f) == {i \in 1..Len(events) : events[i].Path = f}

\* a new event of path f arrives within the window of the previous one: the
\* timer stored for f is still pending and is the only one of f
InWindow(f) ==
  /\ debounceMap[f] # 0
  /\ \A t \in LiveTimers(f) : t.id = debounceMap[f] /\ t.state = "pending"

\* a file-system operation on f and handleFsEvent for its fsnotify event:
\* shouldProcess, the event type, then debounceEvent
handleFsEvent(f, op, content) ==
  /\ fsOps < MaxFsOps
  /\ shouldProcess(f)
  /\ CASE op = "Create" -> files[f] = Absent /\ files' = [files EXCEPT ![f] = content]
       [] op = "Write" -> files[f] # Absent /\ files' = [files EXCEPT ![f] = content]
       [] op \in {"Remove", "Rename"} ->
            files[f] # Absent /\ content = <<>> /\ files' = [files EXCEPT ![f] = Absent]
  /\ fsOps' = fsOps + 1
  /\ LET id == fsOps + 1
         type == EventTypeOf(op)
         stopped == IF debounceMap[f] # 0 THEN StopTimer(timers, debounceMap[f])
                    ELSE timers
     IN /\ timers' = stopped \cup
                       {[id |-> id, path |-> f, type |-> type, state |-> "pending"]}
        /\ debounceMap' = [debounceMap EXCEPT ![f] = id]
        /\ burst' = [burst EXCEPT ![f] =
                       IF LiveTimers(f) = {}
                       THEN [started |-> TRUE, clean |-> TRUE, n |-> 1,
                             last |-> type, emitted |-> 0, emittedType |-> NoEvent]
                       ELSE IF InWindow(f)
                       THEN [@ EXCEPT !.last = type, !.n = @ + 1]
                       ELSE [@ EXCEPT !.last = type, !.n = @ + 1, !.clean = FALSE]]
  /\ processedLast' = [processedLast EXCEPT ![f] = FALSE]
  /\ UNCHANGED <<modelVars, events, recentEvents, now, nextScan, dropped, scanLog,
                 documentCount, indexedDocs, idxVars, reqVars, ifVars, storeVars,
                 lastPass>>

\* the debounce time of a timer elapses: its callback is due
timerFire(t) ==
  /\ t \in timers
  /\ t.state = "pending"
  /\ timers' = (timers \ {t}) \cup {[t EXCEPT !.state = "fired"]}
  /\ UNCHANGED <<modelVars, debounceMap, events, recentEvents, now, nextScan, fsOps, burst,
                 dropped, scanLog, daemonVars, files, idxVars, reqVars, ifVars,
                 storeVars, lastPass>>

\* the AfterFunc callback of debounceEvent: delete the map entry of the path,
\* then queueEvent
timerCallback(t) ==
  /\ t \in timers
  /\ t.state = "fired"
  /\ timers' = timers \ {t}
  /\ debounceMap' = [debounceMap EXCEPT ![t.path] = 0]
  /\ recentEvents' = [recentEvents EXCEPT ![t.path] = now]
  /\ events' = Send(events, MkEvent(t.type, t.path))
  /\ dropped' = IF Len(events) < MaxEventQueue THEN dropped ELSE dropped \cup {t.path}
  /\ burst' = [burst EXCEPT ![t.path] =
                 [@ EXCEPT !.emitted = @ + 1, !.emittedType = t.type]]
  /\ UNCHANGED <<modelVars, now, nextScan, fsOps, scanLog, daemonVars, files, idxVars,
                 reqVars, ifVars, storeVars, lastPass>>

\* the walk of scanDirectories from the i-th file on: st carries the channel,
\* recentEvents and the paths queueEvent was called for and dropped
RECURSIVE ScanFrom(_, _)
ScanFrom(i, st) ==
  IF i > Len(FileSeq) THEN st
  ELSE LET f == FileSeq[i]
           due == /\ files[f] # Absent
                  /\ shouldProcess(f)
                  /\ \/ st.recent[f] = -1
                     \/ now - st.recent[f] > ScanInterval
       IN ScanFrom(i + 1,
            IF due
            THEN [q |-> Send(st.q, MkEvent("Modified", f)),
                  recent |-> [st.recent EXCEPT ![f] = now],
                  emitted |-> st.emitted \cup {f},
                  lost |-> IF Len(st.q) < MaxEventQueue THEN st.lost
                           ELSE st.lost \cup {f}]
            ELSE st)

\* a tick of the scan ticker: scanDirectories
scanDirectories ==
  /\ now = nextScan
  /\ LET r == ScanFrom(1, [q |-> events, recent |-> recentEvents,
                           emitted |-> {}, lost |-> {}])
     IN /\ events' = r.q
        /\ recentEvents' = r.recent
        /\ scanLog' = [dropped |-> {f \in dropped : files[f] # Absent},
                       emitted |-> r.emitted]
        /\ dropped' = r.lost
        /\ processedLast' = [f \in Files |->
                               IF f \in r.emitted THEN FALSE ELSE processedLast[f]]
  /\ nextScan' = nextScan + ScanInterval
  /\ UNCHANGED <<modelVars, debounceMap, timers, now, fsOps, burst, documentCount,
                 indexedDocs, files, idxVars, reqVars, ifVars, storeVars, lastPass>>

\* time passes; a scan that is due runs on its tick
Tick ==
  /\ now < MaxTime
  /\ now < nextScan
  /\ now' = now + 1
  /\ UNCHANGED <<modelVars, debounceMap, timers, events, recentEvents, nextScan, fsOps,
                 burst, dropped, scanLog, daemonVars, files, idxVars, reqVars,
                 ifVars, storeVars, lastPass>>

\* -------------------------------------------------- daemon.Service
\* handleFileEvents receives one event and runs processFileEvent on it
handleFileEvents ==
  /\ events # <<>>
  /\ LET evt == Head(events)
     IN /\ events' = Tail(events)
        /\ processedLast' = [processedLast EXCEPT ![evt.Path] = TRUE]
        /\ IF evt.IsDir \/ evt.Extension # ".md"
           THEN UNCHANGED <<documentCount, indexedDocs>>
           ELSE CASE evt.Type \in {"Created", "Modified"} ->
                       /\ indexedDocs' = indexedDocs + 1
                       /\ documentCount' = documentCount + 1
                  [] evt.Type = "Deleted" ->
                       /\ documentCount' = documentCount - 1
                       /\ UNCHANGED indexedDocs
                  [] evt.Type = "Renamed" ->
                       UNCHANGED <<documentCount, indexedDocs>>
  /\ UNCHANGED <<modelVars, debounceMap, timers, recentEvents, now, nextScan, fsOps, burst,
                 dropped, scanLog, files, idxVars, reqVars, ifVars, storeVars,
                 lastPass>>

\* ---------------------------------------------------- model.CachedEmbedder
IndexSeq(n) == [k \in 1..n |-> k]

\* a faulty cache check: every text counts as missing
uncachedIndicesAll(c, texts) == IndexSeq(Len(texts))

\* the first loop of CachedEmbedder.EmbedBatch: the indices of the texts
\* that are not in the cache, in input order
uncachedIndices(c, texts) ==
  SelectSeq(IndexSeq(Len(texts)), LAMBDA k : c[CacheKey(texts[k])] = NoVec)

\* results after the first loop: the cached vectors at the hit positions
cachedResults(c, texts) == [k \in 1..Len(texts) |-> c[CacheKey(texts[k])]]

\* the second loop of CachedEmbedder.EmbedBatch: the returned embeddings go
\* to the positions of the missing texts, in order
fillResults(res, idx, embs) ==
  [k \in 1..Len(res) |->
     IF \E j \in 1..Len(embs) : idx[j] = k
     THEN embs[CHOOSE j \in 1..Len(embs) : idx[j] = k]
     ELSE res[k]]

\* cache.Set for every returned embedding, later entries replacing earlier
storeAll(c, texts, idx, embs) ==
  [key \in CacheKeys |->
     LET js == {j \in 1..Len(embs) : CacheKey(texts[idx[j]]) = key}
     IN IF js = {} THEN c[key]
        ELSE embs[CHOOSE j \in js : \A j2 \in js : j2 <= j]]

\* the wrapped embedder is called with the given texts
startInner(texts) ==
  /\ opc' = "call"
  /\ oTexts' = texts
  /\ oStart' = 1
  /\ attempt' = 0
  /\ allEmbeddings' = <<>>
  /\ embeddings' = <<>>
  /\ embErr' = FALSE
  /\ oRet' = NoResult
  /\ calls' = 0
  /\ waits' = <<>>

\* CachedEmbedder.EmbedBatch up to the call of the wrapped embedder, or to
\* its return when every text is cached
CachedEmbedBatch(texts) ==
  /\ cpc = "idle"
  /\ embedCalls < MaxEmbedCalls
  /\ embedCalls' = embedCalls + 1
  /\ cKind' = "EmbedBatch"
  /\ cTexts' = texts
  /\ ctxDone' = FALSE
  /\ sent' = {}
  /\ LET idx == uncachedIndices(cache, texts)
     IN IF Len(idx) > 0
        THEN /\ cpc' = "inner"
             /\ cResult' = NoResult
             /\ startInner([j \in 1..Len(idx) |-> texts[idx[j]]])
        ELSE /\ cpc' = "idle"
             /\ cResult' = [err |-> "nil", vecs |-> cachedResults(cache, texts)]
             /\ UNCHANGED <<opc, oTexts, oStart, attempt, allEmbeddings,
                            embeddings, embErr, oRet, calls, waits>>
  /\ UNCHANGED <<otherVars, hybridVars, cache, idxVars, reqVars, ifVars, storeVars, files, watchVars,
                 daemonVars, lastPass>>

\* CachedEmbedder.Embed up to the call of the wrapped embedder, or to its
\* return on a hit
CachedEmbed(text) ==
  /\ cpc = "idle"
  /\ embedCalls < MaxEmbedCalls
  /\ embedCalls' = embedCalls + 1
  /\ cKind' = "Embed"
  /\ cTexts' = <<text>>
  /\ ctxDone' = FALSE
  /\ sent' = {}
  /\ IF cache[CacheKey(text)] # NoVec
     THEN /\ cpc' = "idle"
          /\ cResult' = [err |-> "nil", vecs |-> <<cache[CacheKey(text)]>>]
          /\ UNCHANGED <<opc, oTexts, oStart, attempt, allEmbeddings,
                         embeddings, embErr, oRet, calls, waits>>
     ELSE /\ cpc' = "inner"
          /\ cResult' = NoResult
          /\ startInner(<<text>>)
  /\ UNCHANGED <<otherVars, hybridVars, cache, idxVars, reqVars, ifVars, storeVars, files, watchVars,
                 daemonVars, lastPass>>

\* the wrapped embedder has returned: an error is passed on, embeddings are
\* stored in the cache and put into the results
CachedReturn ==
  /\ cpc = "inner"
  /\ opc = "done"
  /\ cpc' = "idle"
  /\ opc' = "idle"
  /\ IF oRet.err # "nil"
     THEN /\ cResult' = [err |-> oRet.err, vecs |-> <<>>]
          /\ UNCHANGED cache
     ELSE IF cKind = "Embed"
     THEN /\ cache' = [cache EXCEPT ![CacheKey(cTexts[1])] = oRet.vecs[1]]
          /\ cResult' = oRet
     ELSE LET idx == uncachedIndices(cache, cTexts)
          IN /\ cache' = storeAll(cache, cTexts, idx, oRet.vecs)
             /\ cResult' = [err |-> "nil",
                            vecs |-> fillResults(cachedResults(cache, cTexts),
                                                 idx, oRet.vecs)]
  /\ UNCHANGED <<otherVars, hybridVars, cKind, cTexts, embedCalls, ctxDone, oTexts, oStart, attempt,
                 allEmbeddings, embeddings, embErr, oRet, sent, calls, waits,
                 idxVars, reqVars, ifVars, storeVars, files, watchVars,
                 daemonVars, lastPass>>

\* the caller's context is cancelled while the call is in progress
CancelCtx ==
  /\ cpc = "inner"
  /\ ~ctxDone
  /\ ctxDone' = TRUE
  /\ UNCHANGED <<otherVars, hybridVars, cachedVars, ollamaVars, idxVars, reqVars, ifVars, storeVars,
                 files, watchVars, daemonVars, lastPass>>

\* ------------------------------------- indexFile on the wired embedder
\* indexFile: s.embedder.EmbedBatch(ctx, texts) on the embedder initialize
\* wires in, the CachedEmbedder around the OllamaEmbedder
indexFileEmbedBatch ==
  /\ ifpc = "embed"
  /\ cpc = "idle"
  /\ ifpc' = "embedding"
  /\ embedCalls' = embedCalls + 1
  /\ cKind' = "EmbedBatch"
  /\ cTexts' = ifChunks
  /\ ctxDone' = FALSE
  /\ sent' = {}
  /\ LET idx == uncachedIndices(cache, ifChunks)
     IN IF Len(idx) > 0
        THEN /\ cpc' = "inner"
             /\ cResult' = NoResult
             /\ startInner([j \in 1..Len(idx) |-> ifChunks[idx[j]]])
        ELSE /\ cpc' = "idle"
             /\ cResult' = [err |-> "nil", vecs |-> cachedResults(cache, ifChunks)]
             /\ UNCHANGED <<opc, oTexts, oStart, attempt, allEmbeddings,
                            embeddings, embErr, oRet, calls, waits>>
  /\ UNCHANGED <<otherVars, hybridVars, cache, ifFile, ifChunks, ifres, apiCalls,
                 idxVars, reqVars, storeVars, files, watchVars, daemonVars,
                 lastPass>>

\* indexFile: len(embeddings) != len(chunks)
countMismatch(embs, chunks) == Len(embs) # Len(chunks)

\* indexFile after EmbedBatch has returned: an error and a count mismatch
\* fail the file, otherwise the points are built
indexFileEmbedded ==
  /\ ifpc = "embedding"
  /\ cpc = "idle"
  /\ IF cResult.err # "nil" \/ countMismatch(cResult.vecs, ifChunks)
     THEN /\ ifpc' = "idle"
          /\ ifres' = "error"
          /\ ifVecs' = <<>>
     ELSE /\ ifpc' = "store"
          /\ ifVecs' = cResult.vecs
          /\ UNCHANGED ifres
  /\ UNCHANGED <<cachedVars, ctxDone, ollamaVars, hybridVars, ifFile, ifChunks,
                 apiCalls, idxVars, reqVars, storeVars, files, watchVars,
                 daemonVars, lastPass, searchVars, shutdownVars, clientVars,
                 laterVars>>

\* indexFile: UpsertPoints of the points built from the chunks and the
\* embeddings. The store refuses them while the collection does not exist;
\* what it does with a point whose vector is empty is the store's choice
indexFileUpsertPoints ==
  /\ ifpc = "store"
  /\ LET new == BuildPoints(ifFile, findBaseVaultPath(ifFile), ifChunks)
         empty == \E k \in 1..Len(ifVecs) : ifVecs[k] = NoVec
     IN \E accepted \in BOOLEAN :
          /\ accepted => collExists
          /\ ~accepted => (~collExists \/ empty)
          /\ IF accepted
             THEN /\ points' = Upsert(points, new)
                  /\ lastPass' = PassRecord(ifFile, ifChunks, new, points,
                                            Upsert(points, new))
                  /\ ifres' = "ok"
             ELSE /\ UNCHANGED <<points, lastPass>>
                  /\ ifres' = "error"
  /\ ifpc' = "idle"
  /\ UNCHANGED <<modelVars, ifFile, ifChunks, apiCalls, collExists, idxVars, reqVars,
                 files, watchVars, daemonVars>>

\* ---------------------------------------------------- model.OllamaEmbedder
Min(a, b) == IF a < b THEN a ELSE b

\* texts[i:end] of EmbedBatch; Embed sends its one text
Batch == SubSeq(oTexts, oStart, Min(oStart + batchSize - 1, Len(oTexts)))

\* what client.CreateEmbedding can return for a batch: an error, or the
\* embeddings of the first n texts of the batch, n = len(batch) when complete
Responses(batch) ==
  {[err |-> TRUE, emb |-> <<>>]} \cup
  {[err |-> FALSE, emb |-> [k \in 1..n |-> Embedding(batch[k])]] :
     n \in 0..Len(batch)}

\* the test that ends the retry loop
Complete(kind, batch, resp) ==
  /\ ~resp.err
  /\ IF kind = "Embed" THEN Len(resp.emb) > 0
     ELSE Len(resp.emb) = Len(batch)

\* time.Duration(500*(1<<attempt)) * time.Millisecond, in milliseconds
backoffTime(a) == 500 * (2 ^ a)

\* client.CreateEmbedding is called for the current batch
CreateEmbeddingCall ==
  /\ opc = "call"
  /\ opc' = "wait"
  /\ sent' = sent \cup {Batch[k] : k \in 1..Len(Batch)}
  /\ calls' = calls + 1
  /\ UNCHANGED <<otherVars, hybridVars, cachedVars, ctxDone, oTexts, oStart, attempt, allEmbeddings,
                 embeddings, embErr, oRet, waits, idxVars, reqVars, ifVars,
                 storeVars, files, watchVars, daemonVars, lastPass>>

\* the code after the retry loop of Embed: the error, the empty embedding,
\* or the first embedding
afterLoopEmbed(resp) ==
  /\ opc' = "done"
  /\ oRet' = IF resp.err \/ Len(resp.emb) = 0
             THEN [err |-> "error", vecs |-> <<>>]
             ELSE [err |-> "nil", vecs |-> <<resp.emb[1]>>]
  /\ UNCHANGED <<oStart, attempt, allEmbeddings, calls, waits>>

\* the code after the retry loop of EmbedBatch: the error, or the embeddings
\* are appended and the next batch begins
afterLoopEmbedBatch(resp) ==
  IF resp.err
  THEN /\ opc' = "done"
       /\ oRet' = [err |-> "error", vecs |-> <<>>]
       /\ UNCHANGED <<oStart, attempt, allEmbeddings, calls, waits>>
  ELSE /\ allEmbeddings' = allEmbeddings \o resp.emb
       /\ IF oStart + batchSize > Len(oTexts)
          THEN /\ opc' = "done"
               /\ oRet' = [err |-> "nil", vecs |-> allEmbeddings \o resp.emb]
               /\ UNCHANGED <<oStart, attempt, calls, waits>>
          ELSE /\ opc' = "call"
               /\ oStart' = oStart + batchSize
               /\ attempt' = 0
               /\ calls' = 0
               /\ waits' = <<>>
               /\ UNCHANGED oRet

\* client.CreateEmbedding returns and the rest of the loop body runs: break
\* on a complete response, return when the parent context is cancelled,
\* sleep before the next attempt, or leave the loop after the last attempt
CreateEmbeddingReturn ==
  /\ opc = "wait"
  /\ \E resp \in Responses(Batch) :
       /\ ctxDone => resp.err
       /\ embeddings' = resp.emb
       /\ embErr' = resp.err
       /\ IF Complete(cKind, Batch, resp) \/ (~ctxDone /\ attempt >= maxAttempts - 1)
          THEN IF cKind = "Embed" THEN afterLoopEmbed(resp)
               ELSE afterLoopEmbedBatch(resp)
          ELSE IF ctxDone
          THEN /\ opc' = "done"
               /\ oRet' = [err |-> "cancelled", vecs |-> <<>>]
               /\ UNCHANGED <<oStart, attempt, allEmbeddings, calls, waits>>
          ELSE /\ opc' = "sleep"
               /\ waits' = Append(waits, backoffTime(attempt))
               /\ UNCHANGED <<oStart, attempt, allEmbeddings, oRet, calls>>
  /\ UNCHANGED <<otherVars, hybridVars, cachedVars, ctxDone, oTexts, sent, idxVars, reqVars, ifVars,
                 storeVars, files, watchVars, daemonVars, lastPass>>

\* time.Sleep(backoffTime) returns and the next attempt begins
Backoff ==
  /\ opc = "sleep"
  /\ opc' = "call"
  /\ attempt' = attempt + 1
  /\ UNCHANGED <<otherVars, hybridVars, cachedVars, ctxDone, oTexts, oStart, allEmbeddings,
                 embeddings, embErr, oRet, sent, calls, waits, idxVars, reqVars,
                 ifVars, storeVars, files, watchVars, daemonVars, lastPass>>

\* ---------------------------------------------------- model.HybridEmbedder
\* Embed or EmbedBatch up to the read of current under the read lock
HybridEmbed(c) ==
  /\ hpc[c] = "idle"
  /\ hcalls < MaxHybridCalls
  /\ hcalls' = hcalls + 1
  /\ hpc' = [hpc EXCEPT ![c] = "primary"]
  /\ hcur' = [hcur EXCEPT ![c] = hybrid.current]
  /\ hres' = [hres EXCEPT ![c] = "none"]
  /\ hby' = [hby EXCEPT ![c] = 0]
  /\ tried' = [tried EXCEPT ![c] = <<>>]
  /\ clean' = [clean EXCEPT ![c] = TRUE]
  /\ UNCHANGED <<hybrid, hidx, otherVars, cachedVars, ctxDone, ollamaVars, idxVars,
                 reqVars, ifVars, storeVars, files, watchVars, daemonVars,
                 lastPass>>

\* the call of the embedder that was current, which succeeds or fails
HybridPrimary(c) ==
  /\ hpc[c] = "primary"
  /\ tried' = [tried EXCEPT ![c] = Append(@, hcur[c])]
  /\ \E ok \in BOOLEAN :
       IF ok
       THEN /\ hpc' = [hpc EXCEPT ![c] = "idle"]
            /\ hres' = [hres EXCEPT ![c] = "ok"]
            /\ hby' = [hby EXCEPT ![c] = hcur[c]]
            /\ UNCHANGED hidx
       ELSE /\ hpc' = [hpc EXCEPT ![c] = "fallback"]
            /\ hidx' = [hidx EXCEPT ![c] = 1]
            /\ UNCHANGED <<hres, hby>>
  /\ UNCHANGED <<hybrid, hcur, hcalls, clean, otherVars, cachedVars, ctxDone, ollamaVars,
                 idxVars, reqVars, ifVars, storeVars, files, watchVars,
                 daemonVars, lastPass>>

\* a faulty loop: no embedder is skipped
skipTriedNever(i, cur) == FALSE

\* the test of the fallback loop that passes over the embedder tried first
skipTried(i, cur) == i = cur

\* one round of the fallback loop: the end of the loop, the skip of the
\* embedder tried first, or the call of the i-th embedder, which on success
\* becomes the current one
HybridFallback(c) ==
  /\ hpc[c] = "fallback"
  /\ IF hidx[c] > NumProviders
     THEN /\ hpc' = [hpc EXCEPT ![c] = "idle"]
          /\ hres' = [hres EXCEPT ![c] = "error"]
          /\ UNCHANGED <<hybrid, hidx, hby, tried, clean>>
     ELSE IF skipTried(hidx[c], hcur[c])
     THEN /\ hidx' = [hidx EXCEPT ![c] = @ + 1]
          /\ UNCHANGED <<hybrid, hpc, hres, hby, tried, clean>>
     ELSE /\ tried' = [tried EXCEPT ![c] = Append(@, hidx[c])]
          /\ \E ok \in BOOLEAN :
               IF ok
               THEN /\ hybrid' = SwitchTo(hybrid, hidx[c])
                    /\ hpc' = [hpc EXCEPT ![c] = "idle"]
                    /\ hres' = [hres EXCEPT ![c] = "ok"]
                    /\ hby' = [hby EXCEPT ![c] = hidx[c]]
                    /\ clean' = [o \in Callers |->
                                   IF o # c /\ hpc[o] # "idle" THEN FALSE
                                   ELSE clean[o]]
                    /\ UNCHANGED hidx
               ELSE /\ hidx' = [hidx EXCEPT ![c] = @ + 1]
                    /\ UNCHANGED <<hybrid, hpc, hres, hby, clean>>
  /\ UNCHANGED <<hcur, hcalls, otherVars, cachedVars, ctxDone, ollamaVars, idxVars,
                 reqVars, ifVars, storeVars, files, watchVars, daemonVars,
                 lastPass>>

\* ------------------------------------------------------------ search API
\* ParseSearchParameters of a GET and the filter building of a POST: the
\* path prefix wins over the tags, the generic filter is read by GET only
buildFilter(method, pathPrefix, tags, generic) ==
  IF pathPrefix # <<>> THEN FilterPrefixPath \o pathPrefix
  ELSE IF Len(tags) > 0 THEN FilterPrefixTags \o strJoin(tags, <<",">>)
  ELSE IF method = "GET" THEN generic
  ELSE <<>>

\* api.Service.Search: the filter string is parsed back into a path prefix
\* or a list of tags
parseFilter(filter) ==
  LET none == [PathPrefix |-> <<>>, Tags |-> <<>>]
  IN IF filter # <<>> /\ strContains(filter, ":")
     THEN LET filterParts == strSplit(filter, ":")
          IN IF Len(filterParts) = 2
             THEN LET filterType == TrimSpace(filterParts[1])
                      filterValue == TrimSpace(filterParts[2])
                  IN CASE filterType = <<"t", "a", "g", "s">> ->
                            LET tags == strSplit(filterValue, ",")
                            IN [PathPrefix |-> <<>>,
                                Tags |-> [k \in 1..Len(tags) |-> TrimSpace(tags[k])]]
                       [] filterType = <<"p", "a", "t", "h">> ->
                            [PathPrefix |-> filterValue, Tags |-> <<>>]
                       [] OTHER -> none
             ELSE none
     ELSE IF filter # <<>> /\ (strContains(filter, "/") \/ strContains(filter, "\\"))
     THEN [PathPrefix |-> filter, Tags |-> <<>>]
     ELSE none

\* the limit a request without one gets
limitOf(limit) == IF limit <= 0 THEN DefaultSearchLimit ELSE limit

\* the loop of indexer.Service.Search over the points the store returned
searchFilter(found, options) ==
  SelectSeq(found, LAMBDA pt :
    /\ ~(MinScore > 0 /\ pt.score < MinScore)
    /\ ~(options.PathPrefix # <<>> /\ ~HasPrefix(pt.path, options.PathPrefix))
    /\ (Len(options.Tags) > 0 =>
          \E k \in 1..Len(options.Tags) : options.Tags[k] \in pt.tags))

\* handleSearchQuery: GET with URL parameters or POST with a JSON body, then
\* api.Service.Search and indexer.Service.Search
handleSearchQuery(method, pathPrefix, tags, generic, limit, sc, embedOk) ==
  /\ Serving
  /\ LET filter == buildFilter(method, pathPrefix, tags, generic)
         options == parseFilter(filter)
         found == storeSearch(sc, limitOf(limit))
     IN /\ sReq' = [kind |-> "query", method |-> method,
                    path_prefix |-> pathPrefix, tags |-> tags,
                    filter |-> generic, file_path |-> <<>>, limit |-> limit]
        /\ sResp' = IF embedOk
                    THEN [code |-> 200,
                          results |-> sortByScore(searchFilter(found, options))]
                    ELSE [code |-> 500, results |-> <<>>]
  /\ UNCHANGED <<coreVars, wireVars, shutdownVars, clientVars, laterVars>>

\* a faulty self test: no point is taken for the document itself
isSelfMatchNever(pointPath, path) == FALSE

\* the self test of indexer.Service.FindSimilar
isSelfMatch(pointPath, path) == pointPath = path

\* the loop of indexer.Service.FindSimilar over the points the store
\* returned; the options carry neither prefix nor tags
similarFilter(found, path) ==
  SelectSeq(found, LAMBDA pt :
    /\ ~(MinScore > 0 /\ pt.score < MinScore)
    /\ ~isSelfMatch(pt.path, path))

\* handleSearchSimilar, api.Service.FindSimilar and
\* indexer.Service.FindSimilar: the points of the path are looked up by
\* their payload path and the first vector is searched for
handleSearchSimilar(filePath, limit, sc) ==
  /\ Serving
  /\ sReq' = [kind |-> "similar", method |-> "POST", path_prefix |-> <<>>,
              tags |-> <<>>, filter |-> <<>>, file_path |-> filePath,
              limit |-> limit]
  /\ LET content == {k \in 1..Len(Indexed) : Indexed[k].path = filePath}
         found == storeSearch(sc, limitOf(limit))
     IN sResp' = IF filePath = <<>> THEN [code |-> 400, results |-> <<>>]
                 ELSE IF content = {} THEN [code |-> 200, results |-> <<>>]
                 ELSE [code |-> 200,
                       results |-> sortByScore(similarFilter(found, filePath))]
  /\ UNCHANGED <<coreVars, wireVars, shutdownVars, clientVars, laterVars>>

\* ------------------------------------------------- the daemon process
\* the process has not ended
Running == exit = "none"

\* RunDaemon loads the configuration and starts the service: it returns
\* the error of a failed start, otherwise its shutdown goroutine begins to
\* wait
runDaemonStart ==
  /\ Running
  /\ runPc = "start"
  /\ \E ok \in BOOLEAN :
       IF ok THEN runPc' = "wait" /\ UNCHANGED exit
       ELSE runPc' = "failed" /\ exit' = "returned"
  /\ UNCHANGED <<coreVars, wireVars, searchVars, clientVars, laterVars, sigs, sigChan, shutdownCh,
                 completeCh, handlerPc, elapsed>>

\* SIGINT or SIGTERM: signal.Notify delivers it to the channels that are
\* registered, each of which buffers one signal
Signal ==
  /\ Running
  /\ ~sigs /\ handlerPc = "wait"
  /\ sigs' = TRUE
  /\ sigChan' = (runPc = "wait")
  /\ UNCHANGED <<coreVars, wireVars, searchVars, clientVars, laterVars, shutdownCh, completeCh,
                 handlerPc, runPc, elapsed, exit>>

\* the goroutine of setupSignalHandling takes the signal, triggers the
\* shutdown and starts the force-exit timer
handlerReceive ==
  /\ Running
  /\ handlerPc = "wait"
  /\ sigs
  /\ sigs' = FALSE
  /\ shutdownCh' = TRUE
  /\ handlerPc' = "select"
  /\ elapsed' = 0
  /\ UNCHANGED <<coreVars, wireVars, searchVars, clientVars, laterVars, sigChan, completeCh, runPc,
                 exit>>

\* the goroutine of RunDaemon takes the signal or sees the closed shutdown
\* channel, and calls service.Stop
runDaemonReceive ==
  /\ Running
  /\ runPc = "wait"
  /\ sigChan \/ shutdownCh
  /\ \E bySignal \in BOOLEAN :
       /\ bySignal => sigChan
       /\ ~bySignal => shutdownCh
       /\ sigChan' = (sigChan /\ ~bySignal)
       /\ shutdownCh' = (shutdownCh \/ bySignal)
  /\ runPc' = "stop"
  /\ UNCHANGED <<coreVars, wireVars, searchVars, clientVars, laterVars, sigs, completeCh, handlerPc,
                 elapsed, exit>>

\* service.Stop returns, which it need not do, and the completion is
\* signalled
runDaemonStopped ==
  /\ Running
  /\ runPc = "stop"
  /\ runPc' = "done"
  /\ completeCh' = TRUE
  /\ UNCHANGED <<coreVars, wireVars, searchVars, clientVars, laterVars, sigs, sigChan, shutdownCh,
                 handlerPc, elapsed, exit>>

\* RunDaemon reads the closed completion channel and returns to main
runDaemonReturn ==
  /\ Running
  /\ completeCh
  /\ exit' = "returned"
  /\ UNCHANGED <<coreVars, wireVars, searchVars, clientVars, laterVars, sigs, sigChan, shutdownCh,
                 completeCh, handlerPc, runPc, elapsed>>

\* a faulty timer: it never fires
forceExitNever(t) == FALSE

\* time.Sleep(10 * time.Second) has returned and forceExit is closed
forceExit(t) == t >= ForceExitTimeout

\* the select of the signal goroutine followed by os.Exit(0)
handlerExit ==
  /\ Running
  /\ handlerPc = "select"
  /\ \/ completeCh /\ exit' = "graceful"
     \/ forceExit(elapsed) /\ exit' = "forced"
  /\ handlerPc' = "exited"
  /\ UNCHANGED <<coreVars, wireVars, searchVars, clientVars, laterVars, sigs, sigChan, shutdownCh,
                 completeCh, runPc, elapsed>>

\* a second passes while the signal goroutine waits in its select; the
\* goroutine runs as soon as the timer has fired
Second ==
  /\ Running
  /\ handlerPc = "select"
  /\ elapsed < ForceExitTimeout
  /\ elapsed' = elapsed + 1
  /\ UNCHANGED <<coreVars, wireVars, searchVars, clientVars, laterVars, sigs, sigChan, shutdownCh,
                 completeCh, handlerPc, runPc, exit>>

\* ---------------------------------------------------------- qdrant.Client
ReadMethods == {"CollectionExists", "CreateCollection", "UpsertCustomPoints"}
WriteMethods == {"Connect", "Close"}
ClientMethods == ReadMethods \cup WriteMethods \cup {"CreatePayloadIndex"}

\* the goroutines that wait in c.mu.Lock(): sync.RWMutex lets no new reader
\* in while a writer waits
pendingWriters == {g \in Goroutines : mpc[g] = "lock"}

\* c.mu.RLock() can return
mayRLock == writer = "none" /\ pendingWriters = {}

\* c.mu.RUnlock(): a read lock is given back; RUnlock of a mutex without
\* readers is a fatal error of the runtime
RUnlock(g) ==
  IF readerCount = 0
  THEN /\ crashed' = TRUE
       /\ UNCHANGED <<readerCount, rlocks>>
  ELSE /\ readerCount' = readerCount - 1
       /\ rlocks' = [rlocks EXCEPT ![g] = IF @ > 0 THEN @ - 1 ELSE 0]
       /\ UNCHANGED crashed

\* a goroutine calls a method of the client
clientCall(g, m) ==
  /\ ~crashed
  /\ mpc[g] = "idle"
  /\ clientCalls < MaxClientCalls
  /\ clientCalls' = clientCalls + 1
  /\ meth' = [meth EXCEPT ![g] = m]
  /\ mres' = [mres EXCEPT ![g] = "none"]
  /\ mpc' = [mpc EXCEPT ![g] =
               IF m \in WriteMethods THEN "lock"
               ELSE IF m = "CreatePayloadIndex" THEN "unlocked"
               ELSE "rlock"]
  /\ UNCHANGED <<coreVars, wireVars, searchVars, shutdownVars, laterVars, conn, readerCount,
                 writer, rlocks, crashed>>

\* c.mu.RLock() at the head of a method, and again in the CollectionExists
\* that CreateCollection calls
clientRLock(g) ==
  /\ ~crashed
  /\ mpc[g] \in {"rlock", "inner_rlock"}
  /\ mayRLock
  /\ readerCount' = readerCount + 1
  /\ rlocks' = [rlocks EXCEPT ![g] = @ + 1]
  /\ mpc' = [mpc EXCEPT ![g] = IF @ = "rlock" THEN "locked" ELSE "inner_locked"]
  /\ UNCHANGED <<coreVars, wireVars, searchVars, shutdownVars, laterVars, conn, writer, meth,
                 mres, crashed, clientCalls>>

\* after the lock: the test of c.conn, then CollectionExists issues its
\* RPC, CreateCollection calls CollectionExists, and UpsertCustomPoints
\* gives the read lock back before its RPC
clientLocked(g) ==
  /\ ~crashed
  /\ mpc[g] = "locked"
  /\ IF ~conn
     THEN /\ mpc' = [mpc EXCEPT ![g] = "ret"]
          /\ mres' = [mres EXCEPT ![g] = "error"]
          /\ UNCHANGED <<readerCount, rlocks, crashed>>
     ELSE CASE meth[g] = "CollectionExists" ->
                 /\ mpc' = [mpc EXCEPT ![g] = "rpc"]
                 /\ UNCHANGED <<mres, readerCount, rlocks, crashed>>
            [] meth[g] = "CreateCollection" ->
                 /\ mpc' = [mpc EXCEPT ![g] = "inner_rlock"]
                 /\ UNCHANGED <<mres, readerCount, rlocks, crashed>>
            [] meth[g] = "UpsertCustomPoints" ->
                 /\ mpc' = [mpc EXCEPT ![g] = "unlocked"]
                 /\ RUnlock(g)
                 /\ UNCHANGED mres
  /\ UNCHANGED <<coreVars, wireVars, searchVars, shutdownVars, laterVars, conn, writer, meth,
                 clientCalls>>

\* CollectionExists inside CreateCollection: the test of c.conn and the
\* List RPC
clientInnerLocked(g) ==
  /\ ~crashed
  /\ mpc[g] = "inner_locked"
  /\ IF ~conn
     THEN /\ mpc' = [mpc EXCEPT ![g] = "ret"]
          /\ mres' = [mres EXCEPT ![g] = "error"]
          /\ RUnlock(g)
     ELSE /\ mpc' = [mpc EXCEPT ![g] = "inner_rpc"]
          /\ UNCHANGED <<mres, readerCount, rlocks, crashed>>
  /\ UNCHANGED <<coreVars, wireVars, searchVars, shutdownVars, laterVars, conn, writer, meth,
                 clientCalls>>

\* the List RPC of the inner CollectionExists returns and its read lock is
\* given back; CreateCollection returns on an error and when the collection
\* exists, otherwise it issues the Create RPC
clientInnerReturn(g) ==
  /\ ~crashed
  /\ mpc[g] = "inner_rpc"
  /\ RUnlock(g)
  /\ \E answer \in {"error", "exists", "missing"} :
       /\ answer # "error" => conn
       /\ mpc' = [mpc EXCEPT ![g] = IF answer = "missing" THEN "rpc" ELSE "ret"]
       /\ mres' = [mres EXCEPT ![g] =
                    CASE answer = "error" -> "error"
                      [] answer = "exists" -> "ok"
                      [] OTHER -> @]
  /\ UNCHANGED <<coreVars, wireVars, searchVars, shutdownVars, laterVars, conn, writer, meth,
                 clientCalls>>

\* UpsertCustomPoints and CreatePayloadIndex call c.points without the lock:
\* the call panics when Close has cleared the handle
clientIssueUnlocked(g) ==
  /\ ~crashed
  /\ mpc[g] = "unlocked"
  /\ IF conn
     THEN /\ mpc' = [mpc EXCEPT ![g] = "rpc"]
          /\ UNCHANGED <<mres, crashed>>
     ELSE /\ mpc' = [mpc EXCEPT ![g] = "idle"]
          /\ mres' = [mres EXCEPT ![g] = "panic"]
          /\ crashed' = TRUE
  /\ UNCHANGED <<coreVars, wireVars, searchVars, shutdownVars, laterVars, conn, readerCount,
                 writer, meth, rlocks, clientCalls>>

\* the RPC of a method returns; it fails when the connection was closed
clientRpcReturn(g) ==
  /\ ~crashed
  /\ mpc[g] = "rpc"
  /\ \E ok \in BOOLEAN :
       /\ ok => conn
       /\ mres' = [mres EXCEPT ![g] = IF ok THEN "ok" ELSE "error"]
  /\ mpc' = [mpc EXCEPT ![g] = "ret"]
  /\ UNCHANGED <<coreVars, wireVars, searchVars, shutdownVars, laterVars, conn, readerCount,
                 writer, meth, rlocks, crashed, clientCalls>>

\* the method returns: the deferred c.mu.RUnlock() of the methods that have
\* one runs, also in UpsertCustomPoints, which has released its lock already
clientReturn(g) ==
  /\ ~crashed
  /\ mpc[g] = "ret"
  /\ mpc' = [mpc EXCEPT ![g] = "idle"]
  /\ IF meth[g] \in ReadMethods
     THEN RUnlock(g)
     ELSE UNCHANGED <<readerCount, rlocks, crashed>>
  /\ UNCHANGED <<coreVars, wireVars, searchVars, shutdownVars, laterVars, conn, writer, meth,
                 mres, clientCalls>>

\* c.mu.Lock() of Connect and Close returns when no lock is held
clientLock(g) ==
  /\ ~crashed
  /\ mpc[g] = "lock"
  /\ writer = "none"
  /\ readerCount = 0
  /\ writer' = g
  /\ mpc' = [mpc EXCEPT ![g] = "wlocked"]
  /\ UNCHANGED <<coreVars, wireVars, searchVars, shutdownVars, laterVars, conn, readerCount,
                 meth, mres, rlocks, crashed, clientCalls>>

\* the body of Close or Connect under the write lock, and the deferred
\* Unlock: Close closes the connection and clears the handles, Connect sets
\* them when there are none and the ping succeeds
clientWriteBody(g) ==
  /\ ~crashed
  /\ mpc[g] = "wlocked"
  /\ IF meth[g] = "Close"
     THEN /\ conn' = FALSE
          /\ mres' = [mres EXCEPT ![g] = "ok"]
     ELSE IF conn
     THEN /\ UNCHANGED conn
          /\ mres' = [mres EXCEPT ![g] = "ok"]
     ELSE \E ok \in BOOLEAN :
            /\ conn' = ok
            /\ mres' = [mres EXCEPT ![g] = IF ok THEN "ok" ELSE "error"]
  /\ writer' = "none"
  /\ mpc' = [mpc EXCEPT ![g] = "idle"]
  /\ UNCHANGED <<coreVars, wireVars, searchVars, shutdownVars, laterVars, readerCount, meth,
                 rlocks, crashed, clientCalls>>

\* ------------------------------------------- qdrant.Client.UpsertPoints
\* the numbers of points of a call: none, one request, two to MaxBatches
\* batches of which the last holds a single point, and MaxBatches full ones
PointCounts ==
  {0, 1, BatchSize, BatchSize * MaxBatches}
    \cup {BatchSize * k + 1 : k \in 1..(MaxBatches - 1)}

\* batchProcess: the loop that divides the items into batches
RECURSIVE divide(_, _)
divide(i, n) ==
  IF i > n THEN <<>>
  ELSE LET end == IF i + BatchSize - 1 > n THEN n ELSE i + BatchSize - 1
       IN <<(<<i, end>>)>> \o divide(end + 1, n)

\* batchProcess: maxConcurrent, at least one and at most a slot per batch
maxConcurrent(bs) ==
  LET m == IF MaxConcurrent <= 0 THEN 1 ELSE MaxConcurrent
  IN IF m > Len(bs) THEN Len(bs) ELSE m

\* a faulty semaphore: a slot is always free
mayAcquireAlways(held, slots) == TRUE

\* semaphore <- struct{}{} can proceed
mayAcquire(held, slots) == held < slots

\* UpsertPoints up to the first request: the read lock, the test of c.conn,
\* the empty input, the choice between one request and batchProcess, and in
\* batchProcess the division into batches
UpsertPoints(n) ==
  /\ upPc = "idle"
  /\ upRes = "none"
  /\ mayRLock
  /\ readerCount' = readerCount + 1
  /\ rlocks' = [rlocks EXCEPT !["g1"] = @ + 1]
  /\ upN' = n
  /\ upCtxDone' = FALSE
  /\ spawned' = 0
  /\ semaphore' = 0
  /\ errorsCh' = <<>>
  /\ collected' = 0
  /\ errs' = 0
  /\ IF ~conn
     THEN /\ upPc' = "ret"
          /\ upRes' = "error"
          /\ batches' = <<>>
     ELSE IF n = 0
     THEN /\ upPc' = "ret"
          /\ upRes' = "ok"
          /\ batches' = <<>>
     ELSE IF n <= 100
     THEN /\ upPc' = "direct"
          /\ upRes' = "none"
          /\ batches' = << <<1, n>> >>
     ELSE /\ upPc' = "spawn"
          /\ upRes' = "none"
          /\ batches' = divide(1, n)
  /\ bst' = [i \in 1..Len(batches') |-> "none"]
  /\ outcome' = [i \in 1..Len(batches') |-> "none"]
  /\ upSent' = [i \in 1..Len(batches') |-> 0]
  /\ UNCHANGED <<notBatch, conn, writer, mpc, meth, mres, crashed, clientCalls>>

\* the context of the call ends: its deadline passes or the caller cancels
upsertCtxDone ==
  /\ upPc \in {"direct", "spawn", "collect"}
  /\ ~upCtxDone
  /\ upCtxDone' = TRUE
  /\ UNCHANGED <<notBatch, clientVars, upPc, upN, upRes, batches, spawned, bst,
                 semaphore, errorsCh, collected, errs, upSent, outcome>>

\* at most 100 points: the single Upsert request and its answer
upsertDirect ==
  /\ upPc = "direct"
  /\ \E ok \in BOOLEAN :
       /\ upCtxDone => ~ok
       /\ outcome' = [outcome EXCEPT ![1] = IF ok THEN "ok" ELSE "failed"]
       /\ upRes' = IF ok THEN "ok" ELSE "error"
  /\ upSent' = [upSent EXCEPT ![1] = @ + 1]
  /\ upPc' = "ret"
  /\ UNCHANGED <<notBatch, clientVars, upN, upCtxDone, batches, spawned, bst,
                 semaphore, errorsCh, collected, errs>>

\* batchProcess: the loop takes a slot of the semaphore and starts the
\* goroutine of the next batch; after the last one it collects
batchSpawn ==
  /\ upPc = "spawn"
  /\ mayAcquire(semaphore, maxConcurrent(batches))
  /\ semaphore' = semaphore + 1
  /\ spawned' = spawned + 1
  /\ bst' = [bst EXCEPT ![spawned + 1] = "started"]
  /\ upPc' = IF spawned + 1 = Len(batches) THEN "collect" ELSE "spawn"
  /\ UNCHANGED <<notBatch, clientVars, upN, upRes, upCtxDone, batches, errorsCh,
                 collected, errs, upSent, outcome>>

\* the goroutine of a batch: the test of ctx.Err(), then the Upsert request;
\* with a context that is done it sends the error and gives its slot back
batchStart(i) ==
  /\ i \in DOMAIN bst
  /\ bst[i] = "started"
  /\ IF upCtxDone
     THEN /\ errorsCh' = Append(errorsCh, "error")
          /\ bst' = [bst EXCEPT ![i] = "done"]
          /\ semaphore' = semaphore - 1
          /\ UNCHANGED upSent
     ELSE /\ bst' = [bst EXCEPT ![i] = "rpc"]
          /\ upSent' = [upSent EXCEPT ![i] = @ + 1]
          /\ UNCHANGED <<errorsCh, semaphore>>
  /\ UNCHANGED <<notBatch, clientVars, upPc, upN, upRes, upCtxDone, batches,
                 spawned, collected, errs, outcome>>

\* the Upsert request of a batch returns; the goroutine sends its result and
\* the deferred function gives the semaphore slot back
batchRpcReturn(i) ==
  /\ i \in DOMAIN bst
  /\ bst[i] = "rpc"
  /\ \E ok \in BOOLEAN :
       /\ outcome' = [outcome EXCEPT ![i] = IF ok THEN "ok" ELSE "failed"]
       /\ errorsCh' = Append(errorsCh, IF ok THEN "nil" ELSE "error")
  /\ bst' = [bst EXCEPT ![i] = "done"]
  /\ semaphore' = semaphore - 1
  /\ UNCHANGED <<notBatch, clientVars, upPc, upN, upRes, upCtxDone, batches,
                 spawned, collected, errs, upSent>>

\* batchProcess: one result is received; after the last one the errors are
\* combined and UpsertPoints wraps what batchProcess returned
batchCollect ==
  /\ upPc = "collect"
  /\ errorsCh # <<>>
  /\ errorsCh' = Tail(errorsCh)
  /\ collected' = collected + 1
  /\ errs' = IF Head(errorsCh) # "nil" THEN errs + 1 ELSE errs
  /\ IF collected' = Len(batches)
     THEN /\ upPc' = "ret"
          /\ upRes' = IF errs' > 0 THEN "error" ELSE "ok"
     ELSE UNCHANGED <<upPc, upRes>>
  /\ UNCHANGED <<notBatch, clientVars, upN, upCtxDone, batches, spawned, bst,
                 semaphore, upSent, outcome>>

\* UpsertPoints returns: the deferred cancel and c.mu.RUnlock()
upsertReturn ==
  /\ upPc = "ret"
  /\ upPc' = "idle"
  /\ readerCount' = readerCount - 1
  /\ rlocks' = [rlocks EXCEPT !["g1"] = @ - 1]
  /\ UNCHANGED <<notBatch, conn, writer, mpc, meth, mres, crashed, clientCalls,
                 upN, upRes, upCtxDone, batches, spawned, bst, semaphore,
                 errorsCh, collected, errs, upSent, outcome>>

\* ------------------------------------------------ qdrant.Client.Connect
\* EmbeddedServer.IsRunning: a command with a process that has not ended
IsRunning(s) == s.cmd # "nil" /\ s.process = "running"

\* EmbeddedServer.Start: nothing when the server runs; otherwise the
\* command is built with exec.Command, which starts no process
Start(s) ==
  IF s.cmd # "nil" /\ s.process # "nil" /\ IsRunning(s) THEN s
  ELSE [s EXCEPT !.cmd = "sleep", !.process = "nil"]

\* NewClient: the client is built, with an EmbeddedServer when the
\* configuration asks for one, and Connect is called
NewClient(emb) ==
  /\ cnPc = "none"
  /\ cfgEmbedded' = emb
  /\ conn' = FALSE
  /\ cnElapsed' = 0
  /\ \E mkdirOk \in BOOLEAN :
       IF emb /\ ~mkdirOk
       THEN /\ embedded' = NoServer
            /\ cnPc' = "returned"
            /\ cnRes' = "no_data_dir"
       ELSE /\ embedded' = IF emb THEN [NoServer EXCEPT !.ptr = "server"]
                           ELSE NoServer
            /\ cnPc' = "connect"
            /\ cnRes' = "none"
  /\ UNCHANGED <<notConn, readerCount, writer, mpc, meth, mres, rlocks, crashed,
                 clientCalls>>

\* Connect: the write lock, the test of c.conn, and in embedded mode the
\* start of the embedded server
Connect ==
  /\ cnPc = "connect"
  /\ writer = "none" /\ readerCount = 0
  /\ cnElapsed' = 0
  /\ IF conn
     THEN /\ cnPc' = "returned"
          /\ cnRes' = "ok"
          /\ UNCHANGED <<writer, embedded>>
     ELSE IF cfgEmbedded /\ embedded # NoServer
     THEN /\ embedded' = Start(embedded)
          /\ cnPc' = "wait"
          /\ writer' = "g1"
          /\ UNCHANGED cnRes
     ELSE /\ cnPc' = "dial"
          /\ writer' = "g1"
          /\ UNCHANGED <<cnRes, embedded>>
  /\ UNCHANGED <<notConn, cfgEmbedded, conn, readerCount, mpc, meth, mres, rlocks,
                 crashed, clientCalls>>

\* waitForServerReady: a tick of the ticker; the wait ends when the
\* embedded server is running
waitForServerReadyTick ==
  /\ cnPc = "wait"
  /\ cnElapsed < DefaultTimeout
  /\ cnElapsed' = cnElapsed + ReadyTick
  /\ cnPc' = IF IsRunning(embedded) THEN "dial" ELSE "wait"
  /\ UNCHANGED <<notConn, clientVars, cfgEmbedded, embedded, cnRes>>

\* waitForServerReady: the context is done; Connect returns the error and
\* its deferred Unlock runs
waitForServerReadyTimeout ==
  /\ cnPc = "wait"
  /\ cnElapsed >= DefaultTimeout
  /\ cnPc' = "returned"
  /\ cnRes' = "not_ready"
  /\ writer' = "none"
  /\ UNCHANGED <<notConn, cfgEmbedded, embedded, cnElapsed, conn, readerCount,
                 mpc, meth, mres, rlocks, crashed, clientCalls>>

\* Connect: grpc.DialContext and the handles
connectDial ==
  /\ cnPc = "dial"
  /\ \E ok \in BOOLEAN :
       IF ok
       THEN /\ conn' = TRUE
            /\ cnPc' = "ping"
            /\ UNCHANGED <<cnRes, writer>>
       ELSE /\ cnPc' = "returned"
            /\ cnRes' = "dial_failed"
            /\ writer' = "none"
            /\ UNCHANGED conn
  /\ UNCHANGED <<notConn, cfgEmbedded, embedded, cnElapsed, readerCount, mpc,
                 meth, mres, rlocks, crashed, clientCalls>>

\* Connect: the List request that verifies the connection
connectPing ==
  /\ cnPc = "ping"
  /\ \E ok \in BOOLEAN :
       /\ conn' = ok
       /\ cnRes' = IF ok THEN "ok" ELSE "ping_failed"
  /\ cnPc' = "returned"
  /\ writer' = "none"
  /\ UNCHANGED <<notConn, cfgEmbedded, embedded, cnElapsed, readerCount, mpc,
                 meth, mres, rlocks, crashed, clientCalls>>

\* Connect is called again on the client, as the daemon's initialize does
connectAgain ==
  /\ cnPc = "returned"
  /\ cnRes \notin {"no_data_dir", "closed"}
  /\ cnPc' = "connect"
  /\ cnRes' = "none"
  /\ UNCHANGED <<notConn, clientVars, cfgEmbedded, embedded, cnElapsed>>

\* Close: the connection is closed and the embedded server stopped
connectClose ==
  /\ cnPc = "returned"
  /\ cnRes \notin {"no_data_dir", "closed"}
  /\ writer = "none" /\ readerCount = 0
  /\ conn' = FALSE
  /\ embedded' = NoServer
  /\ cnRes' = "closed"
  /\ UNCHANGED <<notConn, cfgEmbedded, cnPc, cnElapsed, readerCount, writer, mpc,
                 meth, mres, rlocks, crashed, clientCalls>>

\* ------------------------------------- filewatcher.Watcher on directories
\* filepath.Dir
Parent(path) == SubSeq(path, 1, Len(path) - 1)

\* strings.HasPrefix(dir, path+"/")
Below(dir, path) == Len(dir) > Len(path) /\ HasPrefix(dir, path)

\* Watcher.isExcludedDir with IgnoreDotFiles: a directory whose name begins
\* with a dot
isExcludedDir(path) == Base(path) = ".obsidian"

\* Watcher.shouldProcess
shouldProcessPath(path, isDir) ==
  IF isDir THEN ~isExcludedDir(path) ELSE shouldProcess(path)

\* Watcher.watchDirectory: nothing for a directory that is tracked already;
\* otherwise the directory and, by the walk, the directories below it that
\* are not excluded or below an excluded one
watchDirectory(dirs, path) ==
  IF path \in dirs THEN dirs
  ELSE dirs \cup {path}
         \cup {d \in dirTree :
                 /\ Below(d, path)
                 /\ \A x \in Dirs : (x = d \/ Below(d, x)) /\ Below(x, path)
                                        => ~isExcludedDir(x)}

\* Watcher.unwatchDirectory: nothing for a directory that is not tracked;
\* otherwise the directory and the tracked directories below it go
unwatchDirectory(dirs, path) ==
  IF path \notin dirs THEN dirs
  ELSE {d \in dirs : d # path /\ ~Below(d, path)}

\* the events fsnotify delivers for the directories of gone, deepest first:
\* one for each whose parent or which itself was watched
RECURSIVE RemoveEvents(_, _, _)
RemoveEvents(i, gone, op) ==
  IF i > Len(DirSeq) THEN <<>>
  ELSE LET d == DirSeq[i]
       IN (IF d \in gone /\ (d \in directories \/ Parent(d) \in directories)
           THEN << [name |-> d, op |-> op] >> ELSE <<>>)
          \o RemoveEvents(i + 1, gone, op)

\* Watcher.AddPath for the vault directory, as the daemon's WatchDirectory
\* calls it
AddPath(path) ==
  /\ wpanic = "none"
  /\ ~wdone
  /\ path \in dirTree
  /\ path \notin directories
  /\ directories' = watchDirectory(directories, path)
  /\ UNCHANGED <<notDirs, clientVars, dirTree, fsn, hev, dirDebounce, dirTimers,
                 wdone, sdone, wpanic, dirOps, stopCalls>>

\* a directory is created
MkDir(d) ==
  /\ wpanic = "none"
  /\ dirOps < MaxDirOps
  /\ d \notin dirTree
  /\ Parent(d) \in dirTree
  /\ dirTree' = dirTree \cup {d}
  /\ dirOps' = dirOps + 1
  /\ fsn' = IF ~wdone /\ Parent(d) \in directories
            THEN Append(fsn, [name |-> d, op |-> "Create"]) ELSE fsn
  /\ UNCHANGED <<notDirs, clientVars, directories, hev, dirDebounce, dirTimers,
                 wdone, sdone, wpanic, stopCalls>>

\* a directory is removed with what it contains, or renamed to a place
\* outside the vault: fsnotify reports each removed directory, and of a
\* renamed tree its top
RemoveDir(d, op) ==
  /\ wpanic = "none"
  /\ dirOps < MaxDirOps
  /\ d \in dirTree
  /\ d # <<"V">>
  /\ LET gone == {x \in dirTree : x = d \/ Below(x, d)}
     IN /\ dirTree' = dirTree \ gone
        /\ fsn' = IF wdone THEN fsn
                  ELSE fsn \o RemoveEvents(1, IF op = "Remove" THEN gone ELSE {d}, op)
  /\ dirOps' = dirOps + 1
  /\ UNCHANGED <<notDirs, clientVars, directories, hev, dirDebounce, dirTimers,
                 wdone, sdone, wpanic, stopCalls>>

\* processEvents receives an fsnotify event and handleFsEvent runs up to its
\* call of debounceEvent: os.Stat, shouldProcess, the event type and the
\* update of the tracked directories
processEvents ==
  /\ wpanic = "none"
  /\ hev = NoDirEvent
  /\ fsn # <<>>
  /\ fsn' = Tail(fsn)
  /\ LET evt == Head(fsn)
         exists == evt.name \in dirTree
         isDir == exists
     IN IF ~shouldProcessPath(evt.name, isDir)
        THEN UNCHANGED <<directories, hev>>
        ELSE /\ directories' =
                  CASE evt.op = "Create" /\ exists /\ isDir ->
                         watchDirectory(directories, evt.name)
                    [] evt.op \in {"Remove", "Rename"} /\ isDir ->
                         unwatchDirectory(directories, evt.name)
                    [] OTHER -> directories
             /\ hev' = [Type |-> EventTypeOf(evt.op), Path |-> evt.name,
                        IsDir |-> isDir, Extension |-> Extension(evt.name)]
  /\ UNCHANGED <<notDirs, clientVars, dirTree, dirDebounce, dirTimers, wdone,
                 sdone, wpanic, dirOps, stopCalls>>

\* Watcher.debounceEvent: the timer stored for the path is stopped and a new
\* one is stored; the store into a nil map panics
debounceEvent ==
  /\ wpanic = "none"
  /\ hev # NoDirEvent
  /\ hev' = NoDirEvent
  /\ IF dirDebounce.nil
     THEN /\ wpanic' = "assignment to entry in nil map"
          /\ UNCHANGED <<dirDebounce, dirTimers>>
     ELSE /\ dirDebounce' = [dirDebounce EXCEPT !.keys = @ \cup {hev.Path}]
          /\ dirTimers' =
               {t \in dirTimers : ~(hev.Path \in dirDebounce.keys /\ t.evt.Path = hev.Path
                                     /\ t.state = "pending")}
                 \cup {[evt |-> hev, state |-> "pending"]}
          /\ UNCHANGED wpanic
  /\ UNCHANGED <<notDirs, clientVars, dirTree, directories, fsn, wdone, sdone,
                 dirOps, stopCalls>>

\* the debounce time of a timer of a directory event elapses
dirTimerFire(t) ==
  /\ wpanic = "none"
  /\ t \in dirTimers
  /\ t.state = "pending"
  /\ dirTimers' = (dirTimers \ {t}) \cup {[t EXCEPT !.state = "fired"]}
  /\ UNCHANGED <<notDirs, clientVars, dirTree, directories, fsn, hev, dirDebounce,
                 wdone, sdone, wpanic, dirOps, stopCalls>>

\* the AfterFunc callback: delete the map entry, a no-op on a nil map, then
\* queueEvent
dirTimerCallback(t) ==
  /\ wpanic = "none"
  /\ t \in dirTimers
  /\ t.state = "fired"
  /\ dirTimers' = dirTimers \ {t}
  /\ dirDebounce' = [dirDebounce EXCEPT !.keys = @ \ {t.evt.Path}]
  /\ recentEvents' = [recentEvents EXCEPT ![t.evt.Path] = now]
  /\ events' = Send(events, t.evt)
  /\ UNCHANGED <<cachedVars, ctxDone, ollamaVars, hybridVars, idxVars, reqVars,
                 ifVars, storeVars, files, debounceMap, timers, now, nextScan,
                 fsOps, burst, dropped, scanLog, daemonVars, lastPass,
                 wireVars, searchVars, shutdownVars, clientVars, batchVars, connVars,
                 chunkVars, wrapVars, vaultVars, statVars,
                 dirTree, directories, fsn, hev, wdone, sdone, wpanic, dirOps,
                 stopCalls>>

\* Watcher.Close: done is closed, the pending timers are stopped, the map is
\* set to nil and the fsnotify watcher is closed; closing a closed channel
\* panics
Close(w) ==
  IF w.wdone
  THEN [w EXCEPT !.wpanic = "close of closed channel"]
  ELSE [w EXCEPT !.wdone = TRUE,
                 !.dirTimers = {t \in @ : t.state # "pending"},
                 !.dirDebounce = Nil,
                 !.fsn = <<>>]

\* daemon.Service.Stop: its done channel is closed, then the file watcher
\* (the API server, the embedder and the store client are not modelled here)
StopDaemon ==
  /\ wpanic = "none"
  /\ stopCalls < MaxStopCalls
  /\ stopCalls' = stopCalls + 1
  /\ IF sdone
     THEN /\ wpanic' = "close of closed channel"
          /\ UNCHANGED <<sdone, wdone, dirTimers, dirDebounce, fsn>>
     ELSE LET w == Close([wdone |-> wdone, dirTimers |-> dirTimers,
                          dirDebounce |-> dirDebounce, fsn |-> fsn,
                          wpanic |-> wpanic])
          IN /\ sdone' = TRUE
             /\ wdone' = w.wdone
             /\ dirTimers' = w.dirTimers
             /\ dirDebounce' = w.dirDebounce
             /\ fsn' = w.fsn
             /\ wpanic' = w.wpanic
  /\ UNCHANGED <<notDirs, clientVars, dirTree, directories, hev, dirOps>>

\* -------------------------------------------------------- markdown.Parser
\* document bodies: the strings of letters and newlines up to MaxTextLen
Bodies == UNION {[1..n -> {"a", "\n"}] : n \in 0..MaxTextLen}

\* the settings max_chunk_size and window_overlap
Windows == {<<4, 1>>, <<3, 1>>}

ParagraphSep == <<"\n", "\n">>

\* strings.Split(text, "\n\n")
RECURSIVE splitParagraphs(_)
splitParagraphs(s) ==
  LET at == {k \in 1..(Len(s) - 1) : s[k] = "\n" /\ s[k + 1] = "\n"}
  IN IF at = {} THEN <<s>>
     ELSE LET i == CHOOSE k \in at : \A j \in at : k <= j
          IN <<SubSeq(s, 1, i - 1)>> \o splitParagraphs(SubSeq(s, i + 2, Len(s)))

\* the loop of ChunkBySlidingWindow from the i-th paragraph on, with the
\* builder cur and the chunks emitted so far
RECURSIVE slideFrom(_, _, _, _, _, _)
slideFrom(i, paragraphs, cur, chunks, windowSize, windowOverlap) ==
  IF i > Len(paragraphs) THEN chunks
  ELSE LET paragraph == TrimSpace(paragraphs[i])
           flush == /\ Len(cur) + Len(paragraph) > windowSize
                    /\ Len(cur) >= windowSize - windowOverlap
           chunks1 == IF flush THEN Append(chunks, cur) ELSE chunks
           cur1 == IF flush THEN <<>> ELSE cur
           cur2 == (IF Len(cur1) > 0 THEN cur1 \o ParagraphSep ELSE <<>>)
                     \o paragraph
       IN IF paragraph = <<>>
          THEN slideFrom(i + 1, paragraphs, cur, chunks, windowSize, windowOverlap)
          ELSE slideFrom(i + 1, paragraphs, cur2,
                         IF i = Len(paragraphs) /\ Len(cur2) > 0
                         THEN Append(chunks1, cur2) ELSE chunks1,
                         windowSize, windowOverlap)

\* Parser.ChunkBySlidingWindow on doc.Content
ChunkBySlidingWindow(text, windowSize, windowOverlap) ==
  slideFrom(1, splitParagraphs(text), <<>>, <<>>, windowSize, windowOverlap)

\* Parser.ChunkByHeaders: a chunk for every section that is not blank
RECURSIVE ChunkByHeaders(_)
ChunkByHeaders(sections) ==
  IF sections = <<>> THEN <<>>
  ELSE (IF Len(TrimSpace(Head(sections))) = 0 THEN <<>> ELSE <<Head(sections)>>)
         \o ChunkByHeaders(Tail(sections))

\* the loop of ChunkHybrid over the header chunks
RECURSIVE hybridFrom(_, _, _)
hybridFrom(headerChunks, windowSize, windowOverlap) ==
  IF headerChunks = <<>> THEN <<>>
  ELSE LET chunk == Head(headerChunks)
       IN (IF Len(chunk) <= windowSize THEN <<chunk>>
           ELSE ChunkBySlidingWindow(chunk, windowSize, windowOverlap))
            \o hybridFrom(Tail(headerChunks), windowSize, windowOverlap)

\* Parser.ChunkHybrid
ChunkHybrid(sections, windowSize, windowOverlap) ==
  hybridFrom(ChunkByHeaders(sections), windowSize, windowOverlap)

\* indexFile chunks a parsed document by the configured strategy
chunkDocument(strategy, sections, win) ==
  /\ chStrategy = "none"
  /\ chStrategy' = strategy
  /\ chSections' = sections
  /\ chWindow' = win
  /\ chOut' = IF strategy = "sliding_window"
              THEN ChunkBySlidingWindow(sections[1], win[1], win[2])
              ELSE ChunkHybrid(sections, win[1], win[2])
  /\ UNCHANGED <<notChunk, clientVars>>

\* ------------------------------- model.CachedEmbedder on the hybrid embedder
\* the vector the i-th embedder returns for a text
ProviderVector(i, text) == [by |-> i, text |-> text, dims |-> ProviderDimensions(i)]

\* SimpleEmbeddingCache.Get: the key is in the map
Cached(key) == \E e \in hcache : e.key = key

\* SimpleEmbeddingCache.Set
CacheSet(key, embedding) ==
  {e \in hcache : e.key # key} \cup {[key |-> key, vec |-> embedding]}

\* Embed or EmbedBatch of the cached embedder begins to build the key: the
\* call of e.embedder.Name()
cachedKeyName(c, kind, text) ==
  /\ wpc[c] = "idle"
  /\ hpc[c] = "idle"
  /\ hcalls < MaxHybridCalls
  /\ wkind' = [wkind EXCEPT ![c] = kind]
  /\ wkey' = [wkey EXCEPT ![c] =
                [Text |-> text, ModelName |-> hybrid.modelName, Dimensions |-> 0]]
  /\ wpc' = [wpc EXCEPT ![c] = "dimensions"]
  /\ UNCHANGED <<notWrap, clientVars, hcache>>

\* the call of e.embedder.Dimensions() completes the key; a cached vector is
\* returned, otherwise the hybrid embedder is called, which reads current
cachedLookup(c) ==
  /\ wpc[c] = "dimensions"
  /\ LET key == [wkey[c] EXCEPT !.Dimensions = hybrid.dimensions]
     IN /\ wkey' = [wkey EXCEPT ![c] = key]
        /\ IF Cached(key)
           THEN /\ wpc' = [wpc EXCEPT ![c] = "idle"]
                /\ UNCHANGED hybridVars
           ELSE /\ wpc' = [wpc EXCEPT ![c] = "inner"]
                /\ hcalls' = hcalls + 1
                /\ hpc' = [hpc EXCEPT ![c] = "primary"]
                /\ hcur' = [hcur EXCEPT ![c] = hybrid.current]
                /\ hres' = [hres EXCEPT ![c] = "none"]
                /\ hby' = [hby EXCEPT ![c] = 0]
                /\ tried' = [tried EXCEPT ![c] = <<>>]
                /\ clean' = [clean EXCEPT ![c] = TRUE]
                /\ UNCHANGED <<hybrid, hidx>>
  /\ UNCHANGED <<cachedVars, ctxDone, ollamaVars, idxVars, reqVars, ifVars,
                 storeVars, files, watchVars, daemonVars, lastPass,
                 wireVars, searchVars, shutdownVars, clientVars, batchVars,
                 connVars, dirVars, chunkVars, vaultVars, statVars, hcache, wkind>>

\* the hybrid embedder has returned: an error is passed on; Embed stores the
\* embedding under the key it built before the call; EmbedBatch builds a new
\* key, beginning with e.embedder.Name()
cachedReturned(c) ==
  /\ wpc[c] = "inner"
  /\ hpc[c] = "idle"
  /\ IF hres[c] = "error"
     THEN /\ wpc' = [wpc EXCEPT ![c] = "idle"]
          /\ UNCHANGED <<hcache, wkey>>
     ELSE IF wkind[c] = "Embed"
     THEN /\ hcache' = CacheSet(wkey[c], ProviderVector(hby[c], wkey[c].Text))
          /\ wpc' = [wpc EXCEPT ![c] = "idle"]
          /\ UNCHANGED wkey
     ELSE /\ wkey' = [wkey EXCEPT ![c] = [@ EXCEPT !.ModelName = hybrid.modelName]]
          /\ wpc' = [wpc EXCEPT ![c] = "store"]
          /\ UNCHANGED hcache
  /\ UNCHANGED <<notWrap, clientVars, wkind>>

\* EmbedBatch: the call of e.embedder.Dimensions() completes the second key
\* and the embedding is stored under it
cachedBatchStore(c) ==
  /\ wpc[c] = "store"
  /\ LET key == [wkey[c] EXCEPT !.Dimensions = hybrid.dimensions]
     IN /\ wkey' = [wkey EXCEPT ![c] = key]
        /\ hcache' = CacheSet(key, ProviderVector(hby[c], key.Text))
  /\ wpc' = [wpc EXCEPT ![c] = "idle"]
  /\ UNCHANGED <<notWrap, clientVars, wkind>>

\* ------------------------------------------- indexFile with several vaults
\* a configuration with three vaults, two of them in directories of the
\* same name, and the notes in them
ManyVaultPaths == << <<"home", "a", "notes">>, <<"home", "b", "notes">>,
                     <<"home", "b", "work">> >>
VaultFiles == {ManyVaultPaths[i] \o <<n>> : i \in 1..Len(ManyVaultPaths),
                                            n \in {"a.md", "b.md"}}

\* Service.findBaseVaultPath for the vault paths of a configuration
findBaseVaultPathOf(vaultPaths, path) ==
  IF Len(vaultPaths) = 1 THEN vaultPaths[1]
  ELSE LET matches == {i \in 1..Len(vaultPaths) : HasPrefix(path, vaultPaths[i])}
       IN IF matches # {}
          THEN vaultPaths[CHOOSE i \in matches :
                 \A j \in matches :
                   \/ Len(vaultPaths[j]) < Len(vaultPaths[i])
                   \/ (Len(vaultPaths[j]) = Len(vaultPaths[i]) /\ i <= j)]
          ELSE IF Len(vaultPaths) > 0 THEN vaultPaths[1] ELSE <<>>

\* IndexFile of a note that exists, with the chunks of its content: the base
\* vault path, the points and their upsert; the embedder may fail
IndexFileOfVault(path, chunks) ==
  /\ vaultCalls < MaxVaultCalls
  /\ vaultCalls' = vaultCalls + 1
  /\ collExists
  /\ \E embedOk \in BOOLEAN :
       IF embedOk
       THEN points' = Upsert(points,
                        BuildPoints(path, findBaseVaultPathOf(ManyVaultPaths, path),
                                    chunks))
       ELSE UNCHANGED points
  /\ UNCHANGED <<cachedVars, ctxDone, ollamaVars, hybridVars, idxVars, reqVars,
                 ifVars, collExists, files, watchVars, daemonVars, lastPass,
                 wireVars, searchVars, shutdownVars, clientVars, batchVars,
                 connVars, dirVars, chunkVars, wrapVars, statVars>>

\* ------------------------------------------------ Service.mutex and stats
\* the point counts a collection info can carry
CollectionInfos == {1, 2}

\* the statements of GetStats and recordError that assign a field of s.stats
StatsWrites == {"write_info", "write_error"}

\* s.mutex.RLock() grants the lock to any number of readers
mutexRLock(mu, g) == [mu EXCEPT !.readers = @ \cup {g}]

\* GetStats: s.mutex.RLock() and the deferred RUnlock
GetStats(g) ==
  /\ spc[g] = "idle"
  /\ statsCalls < MaxStatsCalls
  /\ smu.writer = "none"
  /\ smu' = mutexRLock(smu, g)
  /\ spc' = [spc EXCEPT ![g] = "info"]
  /\ statsCalls' = statsCalls + 1
  /\ UNCHANGED <<notStats, clientVars, sinfo, collectionInfo, lastError>>

\* GetStats: qdrantClient.GetCollectionInfo returns the info or an error
getStatsInfo(g) ==
  /\ spc[g] = "info"
  /\ \/ \E info \in CollectionInfos :
          /\ sinfo' = [sinfo EXCEPT ![g] = info]
          /\ spc' = [spc EXCEPT ![g] = "write_info"]
     \/ /\ spc' = [spc EXCEPT ![g] = "return"]
        /\ UNCHANGED sinfo
  /\ UNCHANGED <<notStats, clientVars, smu, collectionInfo, lastError, statsCalls>>

\* GetStats: s.stats.CollectionInfo = collInfo
getStatsWrite(g) ==
  /\ spc[g] = "write_info"
  /\ collectionInfo' = sinfo[g]
  /\ spc' = [spc EXCEPT ![g] = "return"]
  /\ UNCHANGED <<notStats, clientVars, smu, sinfo, lastError, statsCalls>>

\* GetStats: return s.stats and the deferred s.mutex.RUnlock()
getStatsReturn(g) ==
  /\ spc[g] = "return"
  /\ smu' = [smu EXCEPT !.readers = @ \ {g}]
  /\ spc' = [spc EXCEPT ![g] = "idle"]
  /\ UNCHANGED <<notStats, clientVars, sinfo, collectionInfo, lastError, statsCalls>>

\* recordError: s.mutex.Lock()
recordError(g) ==
  /\ spc[g] = "idle"
  /\ statsCalls < MaxStatsCalls
  /\ smu.writer = "none" /\ smu.readers = {}
  /\ smu' = [smu EXCEPT !.writer = g]
  /\ spc' = [spc EXCEPT ![g] = "write_error"]
  /\ statsCalls' = statsCalls + 1
  /\ UNCHANGED <<notStats, clientVars, sinfo, collectionInfo, lastError>>

\* recordError: LastError and Status are assigned, the deferred Unlock runs
recordErrorWrite(g) ==
  /\ spc[g] = "write_error"
  /\ lastError' = "error"
  /\ stats' = [stats EXCEPT !.Status = "error"]
  /\ smu' = [smu EXCEPT !.writer = "none"]
  /\ spc' = [spc EXCEPT ![g] = "idle"]
  /\ UNCHANGED <<cachedVars, ctxDone, ollamaVars, hybridVars, isIndexing,
                 cancelled, runLog, daemon, reqVars, ifVars, storeVars, files,
                 watchVars, daemonVars, lastPass, wireVars, searchVars,
                 shutdownVars, clientVars, batchVars, connVars, dirVars,
                 chunkVars, wrapVars, vaultVars, sinfo, collectionInfo, statsCalls>>

\* ------------------------------------------------------- specifications
\* the indexer under reindex requests and cancellation
NextIdx ==
  \/ \E r \in Reqs, method \in {"DELETE", "GET"} : handleIndexAllMethod(r, method)
  \/ \E r \in Reqs, force \in BOOLEAN : ReindexAllCall(r, force)
  \/ \E r \in Reqs : ReindexAll(r)
  \/ \E r \in Reqs : resetCollectionDrop(r)
  \/ \E r \in Reqs : resetCollectionCreate(r)
  \/ \E r \in Reqs : IndexVaultEnter(r)
  \/ \E r \in Reqs : WalkEntry(r)
  \/ \E r \in Reqs : WalkIndexFile(r)
  \/ \E r \in Reqs : IndexVaultDefer(r)
  \/ CancelIndexing
  \/ Stop
  \/ StopClose

Spec == Init /\ [][NextIdx]_vars

\* reindex requests next to per-file index requests
NextForce ==
  \/ NextIdx
  \/ \E f \in Files : IndexFileStat(f)
  \/ IndexFileRead
  \/ IndexFileEmbed
  \/ IndexFileUpsert

SpecForce == Init /\ [][NextForce]_vars

\* per-file index requests on files that are edited in between
NextPass ==
  \/ \E f \in Files, content \in Contents \cup {Absent} : WriteFile(f, content)
  \/ \E f \in Files : IndexFileStat(f)
  \/ IndexFileRead
  \/ IndexFileEmbed
  \/ IndexFileUpsert

SpecPass == Init /\ [][NextPass]_vars

\* the watcher with its clock and periodic scan, and the daemon's handler
NextWatch ==
  \/ \E f \in Files, op \in {"Create", "Write", "Remove", "Rename"} :
       handleFsEvent(f, op, IF op \in {"Create", "Write"} THEN <<"x">> ELSE <<>>)
  \/ \E t \in timers : timerFire(t)
  \/ \E t \in timers : timerCallback(t)
  \/ scanDirectories
  \/ Tick
  \/ handleFileEvents

SpecWatch == Init /\ [][NextWatch]_vars

\* file changes that reach the daemon through the watcher, next to per-file
\* index requests
NextDaemon ==
  \/ \E f \in Files, op \in {"Create", "Write", "Remove", "Rename"},
        content \in Contents : handleFsEvent(f, op, content)
  \/ \E t \in timers : timerFire(t)
  \/ \E t \in timers : timerCallback(t)
  \/ handleFileEvents
  \/ \E f \in Files : IndexFileStat(f)
  \/ IndexFileRead
  \/ IndexFileEmbed
  \/ IndexFileUpsert

SpecDaemon == Init /\ [][NextDaemon]_vars

\* calls of the daemon's embedder: the cache in front of the Ollama embedder
NextEmbed ==
  \/ \E texts \in SeqsUpTo(MaxTexts) : CachedEmbedBatch(texts)
  \/ \E text \in Texts : CachedEmbed(text)
  \/ CreateEmbeddingCall
  \/ CreateEmbeddingReturn
  \/ Backoff
  \/ CancelCtx
  \/ CachedReturn

SpecEmbed == Init /\ [][NextEmbed]_vars

\* concurrent calls of a hybrid embedder whose providers may fail
NextHybrid ==
  \/ \E c \in Callers : HybridEmbed(c)
  \/ \E c \in Callers : HybridPrimary(c)
  \/ \E c \in Callers : HybridFallback(c)

SpecHybrid == Init /\ [][NextHybrid]_vars

\* POST /index/file on the wired embedder, with file writes
NextWire ==
  \/ \E f \in Files : IndexFileStat(f)
  \/ IndexFileRead
  \/ indexFileEmbedBatch
  \/ CreateEmbeddingCall
  \/ CreateEmbeddingReturn
  \/ Backoff
  \/ CachedReturn
  \/ indexFileEmbedded
  \/ indexFileUpsertPoints
  \/ \E f \in Files, c \in Contents \ {<<>>} : WriteFile(f, c)

SpecWire == Init /\ [][NextWire]_vars

\* the search requests of the API
NextSearch ==
  \/ \E method \in {"GET", "POST"}, pathPrefix \in PathPrefixes,
        tags \in TagLists, generic \in GenericFilters, limit \in Limits,
        sc \in Scorings, embedOk \in BOOLEAN :
       handleSearchQuery(method, pathPrefix, tags,
                         IF method = "GET" THEN generic ELSE <<>>,
                         limit, sc, embedOk)
  \/ \E filePath \in FilePaths, limit \in Limits, sc \in Scorings :
       handleSearchSimilar(filePath, limit, sc)

SpecSearch == Init /\ [][NextSearch]_vars

\* the daemon process from a termination signal to its end; the goroutines
\* are scheduled and the timer runs, service.Stop may never return
NextShutdown ==
  \/ runDaemonStart
  \/ Signal
  \/ handlerReceive
  \/ runDaemonReceive
  \/ runDaemonStopped
  \/ runDaemonReturn
  \/ handlerExit
  \/ Second

SpecShutdown ==
  /\ Init
  /\ [][NextShutdown]_vars
  /\ WF_vars(handlerReceive)
  /\ WF_vars(runDaemonReceive)
  /\ WF_vars(runDaemonReturn)
  /\ WF_vars(handlerExit)
  /\ WF_vars(Second)

\* goroutines that call methods of one qdrant.Client
NextClient ==
  \/ \E g \in Goroutines, m \in ClientMethods : clientCall(g, m)
  \/ \E g \in Goroutines : clientRLock(g)
  \/ \E g \in Goroutines : clientLocked(g)
  \/ \E g \in Goroutines : clientInnerLocked(g)
  \/ \E g \in Goroutines : clientInnerReturn(g)
  \/ \E g \in Goroutines : clientIssueUnlocked(g)
  \/ \E g \in Goroutines : clientRpcReturn(g)
  \/ \E g \in Goroutines : clientReturn(g)
  \/ \E g \in Goroutines : clientLock(g)
  \/ \E g \in Goroutines : clientWriteBody(g)

SpecClient == Init /\ [][NextClient]_vars

\* UpsertPoints calls, one after the other; the goroutines are scheduled
\* and every request ends, at the latest at its deadline
NextBatch ==
  \/ \E n \in PointCounts : UpsertPoints(n)
  \/ upsertCtxDone
  \/ upsertDirect
  \/ batchSpawn
  \/ \E i \in 1..MaxBatches : batchStart(i)
  \/ \E i \in 1..MaxBatches : batchRpcReturn(i)
  \/ batchCollect
  \/ upsertReturn

SpecBatch ==
  /\ Init
  /\ [][NextBatch]_vars
  /\ WF_vars(upsertDirect)
  /\ WF_vars(batchSpawn)
  /\ \A i \in 1..MaxBatches :
       WF_vars(batchStart(i)) /\ WF_vars(batchRpcReturn(i))
  /\ WF_vars(batchCollect)
  /\ WF_vars(upsertReturn)

\* a client is built and connected, in external or in embedded mode
NextConnect ==
  \/ \E emb \in BOOLEAN : NewClient(emb)
  \/ Connect
  \/ waitForServerReadyTick
  \/ waitForServerReadyTimeout
  \/ connectDial
  \/ connectPing
  \/ connectAgain
  \/ connectClose

SpecConnect == Init /\ [][NextConnect]_vars

\* the watcher on a vault whose directories come and go, and the daemon's
\* Stop
NextDirs ==
  \/ AddPath(<<"V">>)
  \/ \E d \in Dirs : MkDir(d)
  \/ \E d \in Dirs, op \in {"Remove", "Rename"} : RemoveDir(d, op)
  \/ processEvents
  \/ debounceEvent
  \/ \E t \in dirTimers : dirTimerFire(t)
  \/ \E t \in dirTimers : dirTimerCallback(t)
  \/ StopDaemon

SpecDirs == Init /\ [][NextDirs]_vars

\* documents chunked by the sliding window and by the hybrid strategy; a
\* hybrid document has one section, or a second short one
NextChunk ==
  \/ \E text \in Bodies, win \in Windows :
       chunkDocument("sliding_window", <<text>>, win)
  \/ \E text \in Bodies, win \in Windows, more \in {<<>>, << <<"a">> >>} :
       chunkDocument("hybrid", <<text>> \o more, win)

SpecChunk == Init /\ [][NextChunk]_vars

\* concurrent calls of the cached embedder that SetupFallbackEmbedder builds
\* around a hybrid embedder
NextWrap ==
  \/ \E c \in Callers, kind \in {"Embed", "EmbedBatch"} : cachedKeyName(c, kind, "x")
  \/ \E c \in Callers : cachedLookup(c)
  \/ \E c \in Callers : HybridPrimary(c)
  \/ \E c \in Callers : HybridFallback(c)
  \/ \E c \in Callers : cachedReturned(c)
  \/ \E c \in Callers : cachedBatchStore(c)

SpecWrap == Init /\ [][NextWrap]_vars

\* notes of several vaults are indexed into one collection
NextVaults ==
  \E path \in VaultFiles, chunks \in Contents \ {<<>>} : IndexFileOfVault(path, chunks)

SpecVaults == Init /\ [][NextVaults]_vars

\* goroutines of the API call GetStats while file indexing records errors
NextStats ==
  \E g \in Goroutines :
    \/ GetStats(g)
    \/ getStatsInfo(g)
    \/ getStatsWrite(g)
    \/ getStatsReturn(g)
    \/ recordError(g)
    \/ recordErrorWrite(g)

SpecStats == Init /\ [][NextStats]_vars

\* ------------------------------------------------------------ properties
StoredFor(f) == {p \in points : p.full_path = f}

ExpectedFor(f) ==
  IF files[f] = Absent THEN {}
  ELSE BuildPoints(f, findBaseVaultPath(f), files[f])

\* C1: of two reindex requests issued concurrently while no run is in
\* progress, exactly one returns "started" and the other the busy error
C1_SingleFlight ==
  \A pair \in overlap :
    (\A r \in pair : rpc[r] = "returned") =>
      \E r1, r2 \in pair : rres[r1] = "started" /\ rres[r2] = "busy"

\* C2: the collection is dropped and recreated only while no per-file index
\* is executing: between the drop and the recreate no IndexFile is in flight
C2_ResetSerialized ==
  \A r \in Reqs : bg[r] = "create" => ifpc = "idle"

\* C3: once the last watcher event of a path has been processed, the points
\* stored for the path are exactly the chunks of the file as it is now
C3_StoreReflectsFile ==
  \A f \in Files :
    (/\ processedLast[f]
     /\ LiveTimers(f) = {}
     /\ Queued(f) = {}
     /\ f \notin dropped
     /\ ifpc = "idle") => StoredFor(f) = ExpectedFor(f)

\* C4: when the daemon has processed a Deleted or Renamed event of a file,
\* GetPointsByPath of the file's path in the store is empty
C4_DeleteOnRemove ==
  [][(handleFileEvents /\ Head(events).Type \in {"Deleted", "Renamed"}) =>
       LET path == Head(events).Path
       IN GetPointsByPath(points', Rel(findBaseVaultPath(path), path)) = {}]_vars

\* C5: a second index pass over the same unchanged file writes the same
\* point ids with the same payloads and leaves the point count unchanged
C5_IdempotentReindex ==
  lastPass.repeat =>
    /\ lastPass.written = lastPass.prevWritten
    /\ lastPass.after = lastPass.before

C5_Witness ==
  /\ lastPass.repeat
  /\ Len(lastPass.chunks) >= 2
  /\ lastPass.before >= 2

\* C6: a burst of events of one path, each within the debounce window of the
\* previous one, emits at most one event, and after the quiet period exactly
\* one, of the type of the last event of the burst
C6_LastWriterWins ==
  \A f \in Files :
    (burst[f].started /\ burst[f].clean) =>
      /\ burst[f].emitted <= 1
      /\ LiveTimers(f) = {} =>
           (burst[f].emitted = 1 /\ burst[f].emittedType = burst[f].last)

C6_Witness ==
  \E f \in Files :
    /\ burst[f].clean
    /\ burst[f].n >= 2
    /\ LiveTimers(f) = {}
    /\ burst[f].emitted = 1
    /\ burst[f].emittedType = "Deleted"

\* C7: a file that still exists and had an event dropped at the full queue
\* gets a Modified event from the next periodic scan
C7_Resynthesized == scanLog.dropped \subseteq scanLog.emitted

\* C8: the event channel never holds more than MaxEventQueue events, and a
\* producer that finds it full completes with the channel unchanged
C8_BoundedQueue ==
  /\ [](Len(events) <= MaxEventQueue)
  /\ [][(/\ Len(events) = MaxEventQueue
         /\ \/ \E t \in timers : timerCallback(t)
            \/ scanDirectories) => events' = events]_vars

C8_Witness ==
  /\ Len(events) = MaxEventQueue
  /\ dropped # {}

\* C9: indexed + failed never exceeds total, and they are equal when a full
\* run completes without cancellation
C9_StatsBalance ==
  /\ stats.IndexedDocuments + stats.FailedDocuments <= stats.TotalDocuments
  /\ ((\E r \in Reqs : bg[r] = "defer") /\ ~cancelled) =>
       stats.IndexedDocuments + stats.FailedDocuments = stats.TotalDocuments

C9_Witness ==
  /\ \E r \in Reqs : bg[r] = "defer"
  /\ ~cancelled
  /\ stats.FailedDocuments > 0
  /\ stats.IndexedDocuments > 0
  /\ stats.TotalDocuments >= Len(FileSeq)

\* C10: the status changes only along idle -> indexing, indexing -> idle and
\* indexing -> error, and becomes indexing only while no run is in progress
C10_StatusTransitions ==
  [][stats'.Status # stats.Status =>
       /\ <<stats.Status, stats'.Status>> \in
            {<<"idle", "indexing">>, <<"indexing", "idle">>, <<"indexing", "error">>}
       /\ stats'.Status = "indexing" => ~isIndexing]_vars

\* C11: a failed file does not end the walk, IndexVault returns nil, and the
\* status the run ends in is error exactly when a file failed in that run
C11_FailuresDoNotAbort ==
  [][\A r \in Reqs :
       /\ (WalkIndexFile(r) /\ runLog'.failed > runLog.failed) =>
            (bg'[r] = "walk" /\ bgpos'[r] = bgpos[r] + 1)
       /\ IndexVaultDefer(r) =>
            /\ cancelled \/ bgpos[r] > Len(FileSeq)
            /\ runLog'.ret = "nil"
            /\ (stats'.Status = "error") <=> (runLog.failed > 0)
            /\ (stats'.Status = "idle") <=> (runLog.failed = 0)]_vars

\* C12: once CancelIndexing has been called during a run, the walk starts no
\* further file, the run ends with the in-progress flag cleared, and the
\* status it ends in is error only if a file failed in the run, else idle
C12_CancelStopsRun ==
  [][\A r \in Reqs :
       /\ (WalkEntry(r) /\ cancelled) =>
            (bg'[r] = "defer" /\ stats' = stats /\ points' = points)
       /\ (IndexVaultDefer(r) /\ cancelled) =>
            /\ ~isIndexing'
            /\ stats'.Status = IF runLog.failed > 0 THEN "error" ELSE "idle"]_vars

\* C13: a DELETE /api/v1/index/all during a full run cancels the run and is
\* answered with status "cancelled"
C13_DeleteCancels ==
  [][\A r \in Reqs :
       (handleIndexAllMethod(r, "DELETE") /\ isIndexing) =>
         /\ cancelled'
         /\ httpResp'[r] = [code |-> 200, status |-> "cancelled"]]_vars

\* C14: a POST /index/all that finds a full run in progress is answered with
\* 409 and starts no background run
C14_BusyIs409 ==
  [][\A r \in Reqs :
       (ReindexAll(r) /\ isIndexing) =>
         /\ httpResp'[r].code = 409
         /\ bg'[r] = "none"]_vars

\* C15: the end of the request that started a run does not cancel the run,
\* and once Stop has begun the run is cancelled and indexes no further file
C15_DetachedContext ==
  /\ [][\A r \in Reqs : ReindexAll(r) => cancelled' = cancelled]_vars
  /\ []((daemon # "running" /\ isIndexing) => cancelled)
  /\ [][\A r \in Reqs : WalkIndexFile(r) => daemon = "running"]_vars

\* the vectors of a result are the embeddings of the texts, in input order
InInputOrder(texts, vecs) ==
  /\ Len(vecs) = Len(texts)
  /\ \A k \in 1..Len(texts) : vecs[k] = Embedding(texts[k])

\* C16: an EmbedBatch call that returns without error returns one vector per
\* text, vector i being the embedding of text i, for the Ollama embedder
\* with its sub-batches and for the cached embedder in front of it
C16_BatchOrder ==
  /\ (cKind = "EmbedBatch" /\ opc = "done" /\ oRet.err = "nil") =>
       InInputOrder(oTexts, oRet.vecs)
  /\ (cKind = "EmbedBatch" /\ cpc = "idle" /\ cResult.err = "nil") =>
       InInputOrder(cTexts, cResult.vecs)

\* C17: for each sub-batch at most maxAttempts remote calls are made; an
\* error or an incomplete response is followed by a wait of 500ms * 2^attempt
\* and another attempt; when no attempt returned a complete response the
\* EmbedBatch call fails with an error
C17_RetryBackoff ==
  /\ [](calls <= maxAttempts)
  /\ [][(cKind = "EmbedBatch" /\ CreateEmbeddingReturn) =>
         LET full == ~embErr' /\ Len(embeddings') = Len(Batch)
         IN /\ (~full /\ ~ctxDone /\ calls < maxAttempts) =>
                 (opc' = "sleep" /\ waits' = Append(waits, 500 * (2 ^ attempt)))
            /\ (~full /\ opc' # "sleep") =>
                 (opc' = "done" /\ oRet'.err # "nil")]_vars

\* C18: once the parent context is cancelled no retry is made, no backoff
\* wait is started, and the call returns the cancellation error at once
C18_CancelShortCircuits ==
  [][/\ (CreateEmbeddingCall /\ attempt > 0) => ~ctxDone
     /\ (opc # "sleep" /\ opc' = "sleep") => ~ctxDone
     /\ (ctxDone /\ CreateEmbeddingReturn) =>
          (opc' = "done" /\ oRet'.err = "cancelled")]_vars

Others(cur, n) == SelectSeq([k \in 1..n |-> k], LAMBDA k : k # cur)

\* C20: a call tries the provider that is current at its start first and
\* then the others in order; the first one that succeeds ends the call and,
\* when it was a fallback, becomes current; Dimensions() and Name() report
\* the current provider, and the next call starts with it
C20_FallbackPromotes ==
  /\ [](/\ hybrid.dimensions = ProviderDimensions(hybrid.current)
        /\ hybrid.modelName = HybridName(ProviderName(hybrid.current)))
  /\ [][\A c \in Callers :
         /\ HybridEmbed(c) => hcur'[c] = hybrid.current
         /\ HybridPrimary(c) => tried'[c] = <<hcur[c]>>
         /\ (hres[c] # "ok" /\ hres'[c] = "ok") =>
              /\ tried'[c] = IF hby'[c] = hcur[c] THEN <<hcur[c]>>
                             ELSE <<hcur[c]>> \o Others(hcur[c], hby'[c])
              /\ hby'[c] # hcur[c] => hybrid'.current = hby'[c]
              /\ clean'[c] => hybrid'.current = hby'[c]
         /\ (hres[c] # "error" /\ hres'[c] = "error") =>
              /\ tried'[c] = <<hcur[c]>> \o Others(hcur[c], NumProviders)
              /\ hybrid' = hybrid]_vars

C20_Witness ==
  \E c \in Callers :
    /\ hpc[c] = "idle"
    /\ hres[c] = "ok"
    /\ hcur[c] = 2
    /\ hby[c] = 3
    /\ tried[c] = <<2, 1, 3>>
    /\ hybrid.current = 3
    /\ hybrid.dimensions = ProviderDimensions(3)

\* C21: when every provider fails the call returns an error after having
\* tried each provider exactly once, and the step that returns it leaves the
\* current provider, the reported name and the reported dimensions as they
\* were; they are those of the call's start unless another call switched
C21_AllFail ==
  [][\A c \in Callers :
       (hres[c] # "error" /\ hres'[c] = "error") =>
         /\ Len(tried'[c]) = NumProviders
         /\ {tried'[c][k] : k \in 1..Len(tried'[c])} = Providers
         /\ hybrid' = hybrid
         /\ clean'[c] => hybrid' = SwitchTo(hybrid, hcur[c])]_vars

C21_Witness ==
  \E c \in Callers :
    /\ hpc[c] = "idle"
    /\ hres[c] = "error"
    /\ hcur[c] = 2
    /\ tried[c] = <<2, 1, 3>>
    /\ hybrid.current = 2
    /\ hybrid.modelName = HybridName(ProviderName(2))

\* C22: when the wrapped embedder returned fewer vectors than the file has
\* chunks, so that a chunk is left without a vector, indexing the file fails
\* and no point of the file is upserted
C22_CountMismatchFails ==
  [][(/\ ifpc = "store"
      /\ \E k \in 1..Len(ifVecs) : ifVecs[k] = NoVec)
       => (ifres' = "error" /\ points' = points)]_vars

\* C23: IndexFile on a path whose file no longer exists, at os.Stat or
\* later at os.ReadFile, returns without error and changes no point
C23_MissingFileIsNoError ==
  [][/\ \A f \in Files :
          (IndexFileStat(f) /\ files[f] = Absent) =>
            (ifres' = "ok" /\ points' = points)
     /\ (IndexFileRead /\ files[ifFile] = Absent) =>
            (ifres' = "ok" /\ points' = points)]_vars

\* C24: every result of a search with path_prefix P and tags T has a path
\* that begins with P and, when T is not empty, a tag in common with T
C24_SearchFilter ==
  (sReq.kind = "query" /\ sResp.code = 200) =>
    \A k \in 1..Len(sResp.results) :
      /\ HasPrefix(sResp.results[k].path, sReq.path_prefix)
      /\ Len(sReq.tags) > 0 =>
           \E j \in 1..Len(sReq.tags) : sReq.tags[j] \in sResp.results[k].tags

C26_ForceStop ==
  /\ (sigs ~> exit # "none")
  /\ [](exit = "forced" => elapsed = ForceExitTimeout)
  /\ [](elapsed <= ForceExitTimeout)

C26_Witness ==
  /\ exit = "forced"
  /\ runPc = "stop"
  /\ ~completeCh

\* C27: a force request that arrives while an accepted reindex has not
\* ended, and that starts no run of its own, has not reset the collection:
\* it is refused by ReindexAll without a background goroutine, and no such
\* request gets to the refusal of IndexVault, which a force request reaches
\* only after resetCollection
C27_RefusedForceKeepsCollection ==
  [][\A r \in Reqs :
       /\ (ReindexAll(r) /\ isIndexing) => bg'[r] = bg[r]
       /\ (IndexVaultEnter(r) /\ isIndexing /\ r \in arrivedBusy) =>
            ~rforce[r]]_vars

\* C28: an RPC of a client method is in flight only while its goroutine
\* holds the read lock, Connect and Close run their bodies under the write
\* lock, and Close does not clear the connection while an RPC is in flight
C28_RpcUnderReadLock ==
  /\ [](\A g \in Goroutines :
          /\ mpc[g] \in {"rpc", "inner_rpc"} => rlocks[g] > 0
          /\ mpc[g] = "wlocked" => (writer = g /\ readerCount = 0))
  /\ [][(conn /\ ~conn') =>
          \A g \in Goroutines : mpc[g] \notin {"rpc", "inner_rpc"}]_vars

\* C29: no goroutine that holds the read lock waits to take it again while
\* a writer is queued, the state from which neither CreateCollection nor
\* the writer can go on
C29_NoRecursiveReadLock ==
  \A g \in Goroutines :
    ~(/\ mpc[g] = "inner_rlock"
      /\ rlocks[g] > 0
      /\ pendingWriters # {})

\* C30: the counters are per run: a run that starts sets total, indexed and
\* failed documents to zero, and when a run ends total_documents is the
\* number of markdown files that run has visited
C30_StatsPerRun ==
  [][\A r \in Reqs :
       /\ (IndexVaultEnter(r) /\ ~isIndexing) =>
            /\ stats'.TotalDocuments = 0
            /\ stats'.IndexedDocuments = 0
            /\ stats'.FailedDocuments = 0
       /\ IndexVaultDefer(r) => stats.TotalDocuments = bgpos[r] - 1]_vars

\* the points of 1..upN that a batch holds
InBatch(b) == b[1]..b[2]

\* C31: UpsertPoints with more than 100 points splits them into consecutive
\* batches of at most 100, sends every point in exactly one batch, never has
\* more than 4 batch requests in flight, always terminates, and returns
\* success only if every batch succeeded
C31_Batching ==
  /\ [](upN > 100 /\ conn =>
         /\ batches[1][1] = 1
         /\ batches[Len(batches)][2] = upN
         /\ \A k \in 1..Len(batches) :
              /\ batches[k][1] <= batches[k][2]
              /\ batches[k][2] - batches[k][1] + 1 <= 100
              /\ k > 1 => batches[k][1] = batches[k - 1][2] + 1
              /\ upSent[k] <= 1
         /\ Cardinality({i \in DOMAIN bst : bst[i] = "rpc"}) <= 4
         /\ (upRes = "ok" =>
               /\ \A i \in DOMAIN outcome : outcome[i] = "ok"
               /\ \A x \in 1..upN :
                    Cardinality({k \in 1..Len(batches) :
                                   upSent[k] = 1 /\ x \in InBatch(batches[k])}) = 1))
  /\ (upPc # "idle" ~> upPc = "idle")

C31_Witness ==
  /\ upPc = "idle"
  /\ upRes = "ok"
  /\ upN = BatchSize * MaxConcurrent + 1
  /\ Len(batches) = MaxConcurrent + 1
  /\ \A k \in 1..Len(batches) : upSent[k] = 1 /\ outcome[k] = "ok"

\* C32: with the embedded vector store enabled, Connect starts the embedded
\* instance, the readiness wait observes it as running and Connect does not
\* end in the wait's timeout
C32_EmbeddedReady ==
  /\ cnPc = "dial" /\ cfgEmbedded /\ embedded # NoServer => IsRunning(embedded)
  /\ cnRes # "not_ready"

\* C33: when a watched directory is removed or renamed away, the handling
\* of its event removes the directory and every watched directory beneath
\* it from the watcher's directory set
C33_RemovedSubtreeUnwatched ==
  [][(processEvents /\ Head(fsn).op \in {"Remove", "Rename"}
        /\ Head(fsn).name \in directories /\ Head(fsn).name \notin dirTree)
       => \A d \in directories' : d # Head(fsn).name /\ ~Below(d, Head(fsn).name)]_vars

\* C34: Close next to the handling of an event or a firing timer leads to no
\* write into the cleared debounce map, and a second Close or Stop closes
\* no closed channel: nothing panics
C34_CloseIsSafe == wpanic = "none"

\* the paragraphs of a text that are not blank, trimmed, in order
RECURSIVE Paragraphs(_)
Paragraphs(parts) ==
  IF parts = <<>> THEN <<>>
  ELSE (IF TrimSpace(Head(parts)) = <<>> THEN <<>> ELSE <<TrimSpace(Head(parts))>>)
         \o Paragraphs(Tail(parts))

\* the paragraphs of a list of chunks, in order
RECURSIVE ParagraphsOf(_)
ParagraphsOf(chunks) ==
  IF chunks = <<>> THEN <<>>
  ELSE Paragraphs(splitParagraphs(Head(chunks))) \o ParagraphsOf(Tail(chunks))

\* C35: sliding-window chunking emits a final chunk when the buffer is not
\* empty at the end of the input: every non-empty paragraph of the body is in
\* exactly one emitted chunk, also when the body ends with blank lines
C35_EveryParagraphChunked ==
  chStrategy = "sliding_window" =>
    ParagraphsOf(chOut) = Paragraphs(splitParagraphs(chSections[1]))

\* C36: under the hybrid strategy with max_chunk_size M every emitted chunk
\* is at most M + window_overlap long, unless one of its paragraphs alone is
\* longer than M
C36_HybridChunkSize ==
  chStrategy = "hybrid" =>
    \A k \in 1..Len(chOut) :
      \/ Len(chOut[k]) <= chWindow[1] + chWindow[2]
      \/ \E j \in 1..Len(Paragraphs(splitParagraphs(chOut[k]))) :
           Len(Paragraphs(splitParagraphs(chOut[k]))[j]) > chWindow[1]

\* C37: every cache entry stored under key (text, model name, dimensions)
\* holds a vector that the provider with that name produced and that has
\* that dimension, also when the hybrid embedder switches during the call
C37_CacheKeyMatchesProvider ==
  \A e \in hcache :
    /\ e.key.ModelName = HybridName(ProviderName(e.vec.by))
    /\ e.key.Dimensions = e.vec.dims
    /\ e.key.Text = e.vec.text

\* C38: two chunks receive the same point id only if they belong to the same
\* vault, the same relative path and the same chunk index: indexing a file
\* never replaces a point of a file of another vault
C38_VaultsDoNotCollide ==
  [][\A p \in points, q \in points' :
       p.id = q.id =>
         /\ findBaseVaultPathOf(ManyVaultPaths, p.full_path)
              = findBaseVaultPathOf(ManyVaultPaths, q.full_path)
         /\ p.path = q.path
         /\ p.chunk_index = q.chunk_index]_vars

\* C39: every write to a field of the indexer's stats is performed while the
\* stats lock is held exclusively, so no two goroutines write stats at the
\* same time
C39_StatsWritesExclusive ==
  /\ \A g \in Goroutines :
       spc[g] \in StatsWrites => smu.writer = g /\ smu.readers = {}
  /\ Cardinality({g \in Goroutines : spc[g] \in StatsWrites}) <= 1

\* C40: every method of the client releases the read lock exactly once for
\* each time it acquired it: whenever the count of readers goes down, a
\* goroutine gives back a read lock it holds, and RUnlock never meets a mutex
\* without readers (the runtime then stops the program; a call on a cleared
\* handle stops it too, but leaves the result "panic")
C40_ReadUnlockHeld ==
  [][/\ ~(crashed' /\ ~crashed /\ mres' = mres)
     /\ readerCount' < readerCount =>
          \E g \in Goroutines : rlocks[g] > 0 /\ rlocks'[g] = rlocks[g] - 1]_vars

====
